---- MODULE Spec2Model ----
(***************************************************************************)
(* The dialect-conversion engine: T-SQL text (and Power Query M text) to   *)
(* Databricks SQL text plus a conversion log.  A text is a sequence of one-character strings, so that *)
(* the regular expressions of the source are matched character by          *)
(* character.  A note of the log is the record the source appends:         *)
(* message (warn: the message starts with "WARNING: "; text: the rest of   *)
(* the f-string with {0}, {1} .. for its fields; args: the field values)   *)
(* and timestamp.                                                          *)
(***************************************************************************)
EXTENDS Integers, Sequences, FiniteSets, TLC

\* ------------------------------------------------------------ characters

UpperLetters == {"A","B","C","D","E","F","G","H","I","J","K","L","M",
                 "N","O","P","Q","R","S","T","U","V","W","X","Y","Z"}
LowerLetters == {"a","b","c","d","e","f","g","h","i","j","k","l","m",
                 "n","o","p","q","r","s","t","u","v","w","x","y","z"}
Digits == {"0","1","2","3","4","5","6","7","8","9"}
LowerSeq == <<"a","b","c","d","e","f","g","h","i","j","k","l","m","n","o","p","q","r","s","t","u","v","w","x","y","z">>
UpperSeq == <<"A","B","C","D","E","F","G","H","I","J","K","L","M","N","O","P","Q","R","S","T","U","V","W","X","Y","Z">>
UpperMap == [c \in LowerLetters |-> UpperSeq[CHOOSE i \in 1..26 : LowerSeq[i] = c]]
LowerMap == [c \in UpperLetters |-> LowerSeq[CHOOSE i \in 1..26 : UpperSeq[i] = c]]
DigitSeq == <<"0","1","2","3","4","5","6","7","8","9">>

\* the list a comprehension builds, as a sequence with its elements computed
list(f) == << >> \o f
\* str.upper(), one character and a whole text
upper_char(c) == IF c \in LowerLetters THEN UpperMap[c] ELSE c
upper(s) == list([i \in 1..Len(s) |-> upper_char(s[i])])
\* str.lower()
lower_char(c) == IF c \in UpperLetters THEN LowerMap[c] ELSE c
lower(s) == list([i \in 1..Len(s) |-> lower_char(s[i])])
\* str(n) of a natural number (the {len(columns)} of an f-string)
str_int(n) ==
  LET f[k \in 0..n] ==
        IF k < 10 THEN <<DigitSeq[k + 1]>> ELSE f[k \div 10] \o <<DigitSeq[(k % 10) + 1]>>
  IN f[n]

\* the character classes of the patterns: \s  \w  [A-Z]  \d  [^\s] [^\]] [^\)] [^,]  .
\* [^"] [^\}]
\* \s (and what str.strip removes) among the ASCII characters: the space,
\* \t \n \r \f, \v (VTAB) and the separators \x1c to \x1f (FS, GS, RS, US)
IsSpace(c) == c \in {" ", "\t", "\n", "\r", "\f", "VTAB", "FS", "GS", "RS", "US"}
IsWord(c) == c \in UpperLetters \cup LowerLetters \cup Digits \cup {"_"}
IsAZ(c) == c \in UpperLetters
IsDigit(c) == c \in Digits
NotSpace(c) == ~IsSpace(c)
NotRBracket(c) == c # "]"
NotRParen(c) == c # ")"
NotComma(c) == c # ","
NotNewline(c) == c # "\n"
NotQuote(c) == c # "\""
NotRBrace(c) == c # "}"
\* the backquote character (the one character that a string of this module
\* cannot hold as itself)
Backquote == "BACKQUOTE"

\* ------------------------------------------------------- regex machinery
\* A position is an index into the text; 0 is "the match failed".  Every
\* piece of a pattern is a function from the position reached so far to the
\* position after the piece, so that a pattern reads as the chain of its
\* pieces, innermost first.
positions(s) == 0..(Len(s) + 1)

\* end of the longest run of characters of class P that starts at i
RunEnd(s, i, P(_)) ==
  CHOOSE j \in i..(Len(s) + 1) :
    (j > Len(s) \/ ~P(s[j])) /\ \A k \in i..(j - 1) : P(s[k])

\* a literal, case-sensitive and under re.IGNORECASE
lit(s, t) ==
  [p \in positions(s) |->
     IF p > 0 /\ p + Len(t) - 1 <= Len(s) /\ \A k \in 1..Len(t) : s[p + k - 1] = t[k]
     THEN p + Len(t) ELSE 0]
litI(s, t) ==
  [p \in positions(s) |->
     IF p > 0 /\ p + Len(t) - 1 <= Len(s)
        /\ \A k \in 1..Len(t) : upper_char(s[p + k - 1]) = upper_char(t[k])
     THEN p + Len(t) ELSE 0]

\* P* and P+ (greedy)
star(s, P(_)) == [p \in positions(s) |-> IF p = 0 THEN 0 ELSE RunEnd(s, p, P)]
plus(s, P(_)) ==
  [p \in positions(s) |->
     IF p = 0 THEN 0 ELSE LET e == RunEnd(s, p, P) IN IF e > p THEN e ELSE 0]

\* \b : exactly one of the characters before and at p is a word character
IsWordAt(s, k) == k >= 1 /\ k <= Len(s) /\ IsWord(s[k])
wordb(s) ==
  [p \in positions(s) |-> IF p > 0 /\ IsWordAt(s, p - 1) # IsWordAt(s, p) THEN p ELSE 0]

\* \s*(P+) where P also admits white space: \s* is greedy but gives one
\* character back when P+ would otherwise be empty.  Gives <<start of the
\* group, position after it>>, <<0, 0>> on failure.
spacesThenPlus(s, P(_)) ==
  [p \in positions(s) |->
     IF p = 0 THEN <<0, 0>>
     ELSE LET w == RunEnd(s, p, IsSpace)
              e == RunEnd(s, w, P)
          IN IF e > w THEN <<w, e>>
             ELSE IF w > p /\ P(s[w - 1]) THEN <<w - 1, w>>
             ELSE <<0, 0>>]

Slice(s, a, b) == SubSeq(s, a, b - 1)
NoMatch == [end |-> 0, g1 |-> <<>>, g2 |-> <<>>]
Match(e, g1, g2) == IF e = 0 THEN NoMatch ELSE [end |-> e, g1 |-> g1, g2 |-> g2]

\* re.search, re.sub and the matches re.sub visits (leftmost, not overlapping):
\* from position i the next match is the one at the first position >= i where
\* the pattern matches, and the scan goes on after its end
Min(S) == CHOOSE x \in S : \A y \in S : x <= y
re_search(s, M(_, _)) == s # <<>> /\ \E i \in 1..Len(s) : M(s, i).end > 0
re_finditer(s, M(_, _)) ==
  IF s = <<>> THEN <<>> ELSE
  LET ends == list([k \in 1..Len(s) |-> M(s, k).end])
      starts == {k \in 1..Len(s) : ends[k] > 0}
      f[i \in 1..(Len(s) + 1)] ==
        LET later == {k \in starts : k >= i}
        IN IF later = {} THEN <<>>
           ELSE LET start == Min(later)
                    m == M(s, start)
                IN <<[start |-> start, end |-> m.end, g1 |-> m.g1, g2 |-> m.g2]>>
                   \o f[m.end]
  IN f[1]
re_sub(s, M(_, _), R(_)) ==
  IF s = <<>> THEN <<>> ELSE
  LET ms == re_finditer(s, M)
      f[k \in 1..(Len(ms) + 1)] ==
        IF k > Len(ms) THEN <<>>
        ELSE R(ms[k])
             \o SubSeq(s, ms[k].end, (IF k = Len(ms) THEN Len(s) + 1 ELSE ms[k + 1].start) - 1)
             \o f[k + 1]
  IN IF ms = <<>> THEN s ELSE SubSeq(s, 1, ms[1].start - 1) \o f[1]

\* t in s, s.rfind(t) (0 when absent), s.replace(t, r), s.strip(), s.split("\n"), "\n".join
Contains(s, t) == \E i \in 1..(Len(s) + 1) : lit(s, t)[i] > 0
rfind(s, t) ==
  IF Contains(s, t)
  THEN CHOOSE i \in 1..(Len(s) + 1) :
         lit(s, t)[i] > 0 /\ \A j \in (i + 1)..(Len(s) + 1) : lit(s, t)[j] = 0
  ELSE 0
MLiteral(t, s, i) == Match(lit(s, t)[i], <<>>, <<>>)
replace(s, t, r) ==
  LET M(x, i) == MLiteral(t, x, i)
      R(m) == r
  IN re_sub(s, M, R)
strip(s) ==
  IF s = <<>> THEN <<>> ELSE
  LET a == RunEnd(s, 1, IsSpace)
      b == CHOOSE j \in 0..Len(s) :
             (j = 0 \/ ~IsSpace(s[j])) /\ \A k \in (j + 1)..Len(s) : IsSpace(s[k])
  IN IF a > Len(s) THEN <<>> ELSE SubSeq(s, a, b)
split_lines(s) ==
  IF s = <<>> THEN << <<>> >> ELSE
  LET f[i \in 1..(Len(s) + 1)] ==
        LET e == RunEnd(s, i, NotNewline)
        IN IF e > Len(s) THEN <<Slice(s, i, e)>> ELSE <<Slice(s, i, e)>> \o f[e + 1]
  IN f[1]
join_lines(lines) ==
  LET f[k \in 1..Len(lines)] ==
        IF k = Len(lines) THEN lines[k] ELSE lines[k] \o <<"\n">> \o f[k + 1]
  IN f[1]
Flatten(seqs) ==
  LET f[k \in 1..(Len(seqs) + 1)] == IF k > Len(seqs) THEN <<>> ELSE seqs[k] \o f[k + 1]
  IN f[1]
\* sep.join(items)
join(sep, items) ==
  LET f[k \in 1..(Len(items) + 1)] ==
        IF k > Len(items) THEN <<>>
        ELSE IF k = Len(items) THEN items[k] ELSE items[k] \o sep \o f[k + 1]
  IN f[1]

\* ------------------------------------------------------ the conversion log

Msg(warn, text, args) == [warn |-> warn, text |-> text, args |-> args]
\* (a log that would put the newest note first)
_log_conversion_first(log, message) == <<[message |-> message, timestamp |-> "None"]>> \o log
_log_conversion(log, message) == Append(log, [message |-> message, timestamp |-> "None"])
\* the _log_conversion calls of one stage, in the order the stage makes them
log_each(log, messages) ==
  LET f[k \in 0..Len(messages)] ==
        IF k = 0 THEN log ELSE _log_conversion(f[k - 1], messages[k])
  IN f[Len(messages)]

\* ------------------------------------------------- utils/type_mappings.py

SQL_SERVER_TO_DATABRICKS_TYPES ==
     (<<"B","I","G","I","N","T">> :> <<"B","I","G","I","N","T">>) @@ (<<"I","N","T">> :> <<"I","N","T">>)
  @@ (<<"S","M","A","L","L","I","N","T">> :> <<"S","M","A","L","L","I","N","T">>) @@ (<<"T","I","N","Y","I","N","T">> :> <<"T","I","N","Y","I","N","T">>)
  @@ (<<"B","I","T">> :> <<"B","O","O","L","E","A","N">>)
  @@ (<<"D","E","C","I","M","A","L">> :> <<"D","E","C","I","M","A","L">>) @@ (<<"N","U","M","E","R","I","C">> :> <<"D","E","C","I","M","A","L">>)
  @@ (<<"M","O","N","E","Y">> :> <<"D","E","C","I","M","A","L","(","1","9",",","4",")">>) @@ (<<"S","M","A","L","L","M","O","N","E","Y">> :> <<"D","E","C","I","M","A","L","(","1","0",",","4",")">>)
  @@ (<<"F","L","O","A","T">> :> <<"D","O","U","B","L","E">>) @@ (<<"R","E","A","L">> :> <<"F","L","O","A","T">>)
  @@ (<<"D","A","T","E">> :> <<"D","A","T","E">>) @@ (<<"D","A","T","E","T","I","M","E">> :> <<"T","I","M","E","S","T","A","M","P">>)
  @@ (<<"D","A","T","E","T","I","M","E","2">> :> <<"T","I","M","E","S","T","A","M","P">>) @@ (<<"S","M","A","L","L","D","A","T","E","T","I","M","E">> :> <<"T","I","M","E","S","T","A","M","P">>)
  @@ (<<"T","I","M","E">> :> <<"S","T","R","I","N","G">>) @@ (<<"D","A","T","E","T","I","M","E","O","F","F","S","E","T">> :> <<"T","I","M","E","S","T","A","M","P">>)
  @@ (<<"C","H","A","R">> :> <<"S","T","R","I","N","G">>) @@ (<<"V","A","R","C","H","A","R">> :> <<"S","T","R","I","N","G">>) @@ (<<"T","E","X","T">> :> <<"S","T","R","I","N","G">>)
  @@ (<<"N","C","H","A","R">> :> <<"S","T","R","I","N","G">>) @@ (<<"N","V","A","R","C","H","A","R">> :> <<"S","T","R","I","N","G">>) @@ (<<"N","T","E","X","T">> :> <<"S","T","R","I","N","G">>)
  @@ (<<"B","I","N","A","R","Y">> :> <<"B","I","N","A","R","Y">>) @@ (<<"V","A","R","B","I","N","A","R","Y">> :> <<"B","I","N","A","R","Y">>) @@ (<<"I","M","A","G","E">> :> <<"B","I","N","A","R","Y">>)
  @@ (<<"U","N","I","Q","U","E","I","D","E","N","T","I","F","I","E","R">> :> <<"S","T","R","I","N","G">>) @@ (<<"X","M","L">> :> <<"S","T","R","I","N","G">>) @@ (<<"J","S","O","N">> :> <<"S","T","R","I","N","G">>)

\* re.match(r'([A-Z]+)(\(.*\))?', s): the base type and the position after the
\* parameters ("." does not cross a line break, ".*" runs to the last ")").
type_token_base_end(s) == plus(s, IsAZ)[1]
type_token_params_end(s, b) ==
  LET stop == RunEnd(s, b, NotNewline)
      closers == {j \in (b + 1)..(stop - 1) : s[j] = ")"}
  IN IF lit(s, <<"(">>)[b] > 0 /\ closers # {}
     THEN (CHOOSE j \in closers : \A k \in closers : k <= j) + 1
     ELSE b

\* (a type mapper that would drop precision and scale)
decimal_params_dropped(databricks_type, params) == databricks_type
\* the branch of map_sql_server_type that keeps the parameters
decimal_with_params(databricks_type, params) == databricks_type \o params
map_sql_server_type(sql_type) ==
  LET s == upper(sql_type)
      b == type_token_base_end(s)
  IN IF b = 0 THEN <<"S","T","R","I","N","G">>
     ELSE LET base_type == Slice(s, 1, b)
              params == Slice(s, b, type_token_params_end(s, b))
          IN IF base_type \in DOMAIN SQL_SERVER_TO_DATABRICKS_TYPES
             THEN LET databricks_type == SQL_SERVER_TO_DATABRICKS_TYPES[base_type]
                  IN IF params # <<>> /\ databricks_type \in {<<"D","E","C","I","M","A","L">>, <<"N","U","M","E","R","I","C">>}
                     THEN decimal_with_params(databricks_type, params)
                     ELSE IF params # <<>> /\ databricks_type = <<"S","T","R","I","N","G">>
                     THEN <<"S","T","R","I","N","G">>
                     ELSE databricks_type
             ELSE <<"S","T","R","I","N","G">>

TSQL_FUNCTION_MAPPINGS == <<
  [tsql_func |-> <<"G","E","T","D","A","T","E","(",")">>, databricks_func |-> <<"C","U","R","R","E","N","T","_","T","I","M","E","S","T","A","M","P","(",")">>],
  [tsql_func |-> <<"G","E","T","U","T","C","D","A","T","E","(",")">>, databricks_func |-> <<"C","U","R","R","E","N","T","_","T","I","M","E","S","T","A","M","P","(",")">>],
  [tsql_func |-> <<"S","Y","S","D","A","T","E","T","I","M","E","(",")">>, databricks_func |-> <<"C","U","R","R","E","N","T","_","T","I","M","E","S","T","A","M","P","(",")">>],
  [tsql_func |-> <<"C","U","R","R","E","N","T","_","T","I","M","E","S","T","A","M","P">>, databricks_func |-> <<"C","U","R","R","E","N","T","_","T","I","M","E","S","T","A","M","P","(",")">>],
  [tsql_func |-> <<"N","E","W","I","D","(",")">>, databricks_func |-> <<"U","U","I","D","(",")">>],
  [tsql_func |-> <<"I","S","N","U","L","L">>, databricks_func |-> <<"C","O","A","L","E","S","C","E">>],
  [tsql_func |-> <<"L","E","N">>, databricks_func |-> <<"L","E","N","G","T","H">>],
  [tsql_func |-> <<"C","H","A","R","I","N","D","E","X">>, databricks_func |-> <<"I","N","S","T","R">>],
  [tsql_func |-> <<"S","T","U","F","F">>, databricks_func |-> <<"O","V","E","R","L","A","Y">>],
  [tsql_func |-> <<"D","A","T","E","P","A","R","T">>, databricks_func |-> <<"E","X","T","R","A","C","T">>] >>

\* DATE_FUNCTION_PATTERNS, in the order of the dictionary.  Each pattern is
\* matched by the operator below it in this section; pattern and replacement
\* are kept as written for the note.
DATE_FUNCTION_PATTERNS == <<
  [pattern |-> <<"D","A","T","E","A","D","D","\\","s","*","\\","(","\\","s","*","d","a","y","\\","s","*",",","\\","s","*","(","-","?","\\","d","+",")","\\","s","*",",","\\","s","*","G","E","T","D","A","T","E","\\","(","\\",")","\\","s","*","\\",")">>,
   replacement |-> <<"D","A","T","E","_","A","D","D","(","C","U","R","R","E","N","T","_","D","A","T","E","(",")",","," ","\\","1",")">>],
  [pattern |-> <<"D","A","T","E","A","D","D","\\","s","*","\\","(","\\","s","*","m","o","n","t","h","\\","s","*",",","\\","s","*","(","-","?","\\","d","+",")","\\","s","*",",","\\","s","*","G","E","T","D","A","T","E","\\","(","\\",")","\\","s","*","\\",")">>,
   replacement |-> <<"A","D","D","_","M","O","N","T","H","S","(","C","U","R","R","E","N","T","_","D","A","T","E","(",")",","," ","\\","1",")">>],
  [pattern |-> <<"D","A","T","E","A","D","D","\\","s","*","\\","(","\\","s","*","y","e","a","r","\\","s","*",",","\\","s","*","(","-","?","\\","d","+",")","\\","s","*",",","\\","s","*","G","E","T","D","A","T","E","\\","(","\\",")","\\","s","*","\\",")">>,
   replacement |-> <<"A","D","D","_","M","O","N","T","H","S","(","C","U","R","R","E","N","T","_","D","A","T","E","(",")",","," ","\\","1"," ","*"," ","1","2",")">>],
  [pattern |-> <<"D","A","T","E","A","D","D","\\","s","*","\\","(","\\","s","*","d","a","y","\\","s","*",",","\\","s","*","(","-","?","\\","d","+",")","\\","s","*",",","\\","s","*","(","[","^","\\",")","]","+",")","\\","s","*","\\",")">>,
   replacement |-> <<"D","A","T","E","_","A","D","D","(","\\","2",","," ","\\","1",")">>],
  [pattern |-> <<"D","A","T","E","D","I","F","F","\\","s","*","\\","(","\\","s","*","d","a","y","\\","s","*",",","\\","s","*","(","[","^",",","]","+",")","\\","s","*",",","\\","s","*","(","[","^","\\",")","]","+",")","\\","s","*","\\",")">>,
   replacement |-> <<"D","A","T","E","D","I","F","F","(","\\","2",","," ","\\","1",")">>],
  [pattern |-> <<"C","A","S","T","\\","s","*","\\","(","\\","s","*","(","[","^","\\","s","]","+",")","\\","s","+","A","S","\\","s","+","D","A","T","E","\\","s","*","\\",")">>,
   replacement |-> <<"D","A","T","E","(","\\","1",")">>] >>

\* FUNC\s*\(\s*unit\s*,\s*   (the common head of the DATEADD / DATEDIFF patterns)
date_head(s, i, func, unit) ==
  LET ws == star(s, IsSpace)
  IN ws[lit(s, <<",">>)[ws[litI(s, unit)[ws[lit(s, <<"(">>)[ws[litI(s, func)[i]]]]]]]]
\* (-?\d+) : from the position of the number to the position after it
signed_number(s) ==
  [p \in positions(s) |->
     IF p = 0 THEN 0
     ELSE plus(s, IsDigit)[IF lit(s, <<"-">>)[p] > 0 THEN p + 1 ELSE p]]

\* DATEADD\s*\(\s*<unit>\s*,\s*(-?\d+)\s*,\s*GETDATE\(\)\s*\)
M_dateadd_getdate(unit, s, i) ==
  LET ws == star(s, IsSpace)
      a == date_head(s, i, <<"D","A","T","E","A","D","D">>, unit)
      b == signed_number(s)[a]
      d == ws[litI(s, <<"G","E","T","D","A","T","E","(",")">>)[ws[lit(s, <<",">>)[ws[b]]]]]
  IN Match(lit(s, <<")">>)[d], Slice(s, a, b), <<>>)
\* DATEADD\s*\(\s*day\s*,\s*(-?\d+)\s*,\s*([^\)]+)\s*\)
M_dateadd_expr(s, i) ==
  LET a == date_head(s, i, <<"D","A","T","E","A","D","D">>, <<"d","a","y">>)
      b == signed_number(s)[a]
      g == spacesThenPlus(s, NotRParen)[lit(s, <<",">>)[star(s, IsSpace)[b]]]
  IN Match(lit(s, <<")">>)[g[2]], Slice(s, a, b), Slice(s, g[1], g[2]))
\* DATEDIFF\s*\(\s*day\s*,\s*([^,]+)\s*,\s*([^\)]+)\s*\)
M_datediff(s, i) ==
  LET ws == star(s, IsSpace)
      a == litI(s, <<"d","a","y">>)[ws[lit(s, <<"(">>)[ws[litI(s, <<"D","A","T","E","D","I","F","F">>)[i]]]]]
      g == spacesThenPlus(s, NotComma)[lit(s, <<",">>)[ws[a]]]
      h == spacesThenPlus(s, NotRParen)[lit(s, <<",">>)[g[2]]]
  IN Match(lit(s, <<")">>)[h[2]], Slice(s, g[1], g[2]), Slice(s, h[1], h[2]))
\* \s+AS\s+DATE\s*\)   (the common tail of the two CAST patterns)
as_date_tail(s) ==
  [p \in positions(s) |->
     LET sp == plus(s, IsSpace)
     IN lit(s, <<")">>)[star(s, IsSpace)[litI(s, <<"D","A","T","E">>)[sp[litI(s, <<"A","S">>)[sp[p]]]]]]]
\* CAST\s*\(\s*   (the common head of the two CAST patterns)
cast_head(s) ==
  [p \in positions(s) |->
     LET ws == star(s, IsSpace) IN ws[lit(s, <<"(">>)[ws[litI(s, <<"C","A","S","T">>)[p]]]]]
\* CAST\s*\(\s*([^\s]+)\s+AS\s+DATE\s*\)
M_cast_as_date(s, i) ==
  LET a == cast_head(s)[i]
      b == plus(s, NotSpace)[a]
  IN Match(as_date_tail(s)[b], Slice(s, a, b), <<>>)
date_pattern_match(k, s, i) ==
  CASE k = 1 -> M_dateadd_getdate(<<"d","a","y">>, s, i)
    [] k = 2 -> M_dateadd_getdate(<<"m","o","n","t","h">>, s, i)
    [] k = 3 -> M_dateadd_getdate(<<"y","e","a","r">>, s, i)
    [] k = 4 -> M_dateadd_expr(s, i)
    [] k = 5 -> M_datediff(s, i)
    [] k = 6 -> M_cast_as_date(s, i)
date_pattern_expand(k, m) ==
  CASE k = 1 -> <<"D","A","T","E","_","A","D","D","(","C","U","R","R","E","N","T","_","D","A","T","E","(",")",","," ">> \o m.g1 \o <<")">>
    [] k = 2 -> <<"A","D","D","_","M","O","N","T","H","S","(","C","U","R","R","E","N","T","_","D","A","T","E","(",")",","," ">> \o m.g1 \o <<")">>
    [] k = 3 -> <<"A","D","D","_","M","O","N","T","H","S","(","C","U","R","R","E","N","T","_","D","A","T","E","(",")",","," ">> \o m.g1 \o <<" ","*"," ","1","2",")">>
    [] k = 4 -> <<"D","A","T","E","_","A","D","D","(">> \o m.g2 \o <<","," ">> \o m.g1 \o <<")">>
    [] k = 5 -> <<"D","A","T","E","D","I","F","F","(">> \o m.g2 \o <<","," ">> \o m.g1 \o <<")">>
    [] k = 6 -> <<"D","A","T","E","(">> \o m.g1 \o <<")">>

\* --------------------------------------------- converters/tsql/converter.py
\* Every stage takes the text and gives [sql, notes]: the text it returns and
\* the messages it passes to _log_conversion, in order.

Stage(sql, notes) == [sql |-> sql, notes |-> notes]

\* (a converter that would keep the log of the calls before)
reset_log_kept(conversion_log) == conversion_log
\* self.conversion_log = []  (the first statement of convert_query / convert_ddl)
reset_log(conversion_log) == <<>>

\* r'\[([^\]]+)\]'
M_bracket(s, i) ==
  LET a == lit(s, <<"[">>)[i]
      b == plus(s, NotRBracket)[a]
  IN Match(lit(s, <<"]">>)[b], Slice(s, a, b), <<>>)
\* ' ' in identifier or any(c in identifier for c in ['-', '/', '\\'])
needs_backticks(identifier) ==
  \E k \in 1..Len(identifier) : identifier[k] \in {" ", "-", "/", "\\"}
replace_bracket_text(m) ==
  IF needs_backticks(m.g1) THEN <<Backquote>> \o m.g1 \o <<Backquote>> ELSE m.g1
replace_bracket_note(m) ==
  IF needs_backticks(m.g1)
  THEN Msg(FALSE, "Converted bracketed identifier [{0}] to backticks", <<m.g1>>)
  ELSE Msg(FALSE, "Removed unnecessary brackets from [{0}]", <<m.g1>>)
_convert_identifiers(sql) ==
  LET ms == re_finditer(sql, M_bracket)
  IN Stage(re_sub(sql, M_bracket, replace_bracket_text),
           list([k \in 1..Len(ms) |-> replace_bracket_note(ms[k])]))

\* r'CAST\s*\(\s*GETDATE\(\)\s+AS\s+DATE\s*\)'
M_cast_getdate(s, i) ==
  Match(as_date_tail(s)[litI(s, <<"G","E","T","D","A","T","E","(",")">>)[cast_head(s)[i]]], <<>>, <<>>)
\* r'\bNAME\(\)' for NAME() in GETDATE(), GETUTCDATE(), SYSDATETIME()
M_word_then(name, s, i) == Match(litI(s, name)[wordb(s)[i]], <<>>, <<>>)
R_current_date(m) == <<"C","U","R","R","E","N","T","_","D","A","T","E","(",")">>
R_current_timestamp(m) == <<"C","U","R","R","E","N","T","_","T","I","M","E","S","T","A","M","P","(",")">>
\* one turn of the loop over DATE_FUNCTION_PATTERNS (the first part of
\* _convert_date_functions)
apply_date_pattern(k, sql) ==
  LET M(s, i) == date_pattern_match(k, s, i)
      R(m) == date_pattern_expand(k, m)
  IN IF re_search(sql, M)
     THEN Stage(re_sub(sql, M, R),
                << Msg(FALSE, "Converted date function: {0} -> {1}",
                       <<DATE_FUNCTION_PATTERNS[k].pattern,
                         DATE_FUNCTION_PATTERNS[k].replacement>>) >>)
     ELSE Stage(sql, << >>)
\* the four special cases after the loop (the rest of _convert_date_functions)
convert_date_special_cases(sql) ==
  LET MGetdate(s, i) == M_word_then(<<"G","E","T","D","A","T","E","(",")">>, s, i)
      MGetutcdate(s, i) == M_word_then(<<"G","E","T","U","T","C","D","A","T","E","(",")">>, s, i)
      MSysdatetime(s, i) == M_word_then(<<"S","Y","S","D","A","T","E","T","I","M","E","(",")">>, s, i)
      c1 == re_sub(sql, M_cast_getdate, R_current_date)
      c2 == re_sub(c1, MGetdate, R_current_timestamp)
      c3 == re_sub(c2, MGetutcdate, R_current_timestamp)
      c4 == re_sub(c3, MSysdatetime, R_current_timestamp)
  IN Stage(c4, << >>)

\* r'\b' + tsql_func.replace('(', r'\(').replace(')', r'\)') + r'\b'
M_function(tsql_func, s, i) ==
  Match(wordb(s)[litI(s, tsql_func)[wordb(s)[i]]], <<>>, <<>>)
\* one turn of the loop over TSQL_FUNCTION_MAPPINGS (_convert_system_functions)
apply_function_mapping(k, sql) ==
  LET e == TSQL_FUNCTION_MAPPINGS[k]
      M(s, i) == M_function(e.tsql_func, s, i)
      R(m) == e.databricks_func
  IN IF re_search(sql, M)
     THEN Stage(re_sub(sql, M, R),
                << Msg(FALSE, "Converted function: {0} -> {1}",
                       <<e.tsql_func, e.databricks_func>>) >>)
     ELSE Stage(sql, << >>)

\* the re.sub of this stage is commented out in the source: the text comes
\* back as it went in, with or without catalog and schema
_convert_table_references(sql, self_catalog, self_schema) ==
  IF self_catalog # <<>> /\ self_schema # <<>> THEN Stage(sql, << >>) ELSE Stage(sql, << >>)

\* r'\s+'   r'\s*,\s*'   r'\s*\(\s*'   r'\s*\)\s*'
M_spaces(s, i) == Match(plus(s, IsSpace)[i], <<>>, <<>>)
M_around(c, s, i) ==
  Match(star(s, IsSpace)[lit(s, <<c>>)[star(s, IsSpace)[i]]], <<>>, <<>>)
_clean_format(sql) ==
  LET MComma(s, i) == M_around(",", s, i)
      MOpen(s, i) == M_around("(", s, i)
      MClose(s, i) == M_around(")", s, i)
      RSpace(m) == <<" ">>
      RComma(m) == <<",", " ">>
      ROpen(m) == <<"(">>
      RClose(m) == <<")", " ">>
      a == replace(sql, <<"#","(","l","f",")">>, <<"\n">>)
      b == re_sub(a, M_spaces, RSpace)
      c == re_sub(b, MComma, RComma)
      d == re_sub(c, MOpen, ROpen)
      e == re_sub(d, MClose, RClose)
  IN strip(e)

\* r'(\w+)\s+([A-Z]+(?:\([^\)]+\))?)'
M_column(s, i) ==
  LET a == plus(s, IsWord)[i]
      b == plus(s, IsSpace)[a]
      c == plus(s, IsAZ)[b]
      d == lit(s, <<")">>)[plus(s, NotRParen)[lit(s, <<"(">>)[c]]]
  IN Match(IF d > 0 THEN d ELSE c, Slice(s, i, a), Slice(s, b, IF d > 0 THEN d ELSE c))
replace_type_text(m) == m.g1 \o <<" ">> \o map_sql_server_type(m.g2)
\* the note replace_type logs for a match, as a sequence of none or one
replace_type_notes(m) ==
  IF map_sql_server_type(m.g2) # m.g2
  THEN << Msg(FALSE, "Converted column {0} type: {1} -> {2}",
              <<m.g1, m.g2, map_sql_server_type(m.g2)>>) >>
  ELSE << >>
\* the lines the loop rewrites
is_column_line(line) == re_search(line, M_column) /\ ~Contains(upper(line), <<"C","R","E","A","T","E"," ","T","A","B","L","E">>)
_convert_data_types(ddl) ==
  LET lines == split_lines(ddl)
      out == list([i \in 1..Len(lines) |->
                     IF is_column_line(lines[i])
                     THEN re_sub(lines[i], M_column, replace_type_text) ELSE lines[i]])
      notes == list([i \in 1..Len(lines) |->
                       IF is_column_line(lines[i])
                       THEN LET ms == re_finditer(lines[i], M_column)
                            IN Flatten(list([k \in 1..Len(ms) |-> replace_type_notes(ms[k])]))
                       ELSE << >>])
  IN Stage(join_lines(out), Flatten(notes))

\* r'CHECK\s*\('
M_check(s, i) == Match(lit(s, <<"(">>)[star(s, IsSpace)[litI(s, <<"C","H","E","C","K">>)[i]]], <<>>, <<>>)
_convert_constraints(ddl) ==
  Stage(ddl,
        (IF Contains(upper(ddl), <<"P","R","I","M","A","R","Y"," ","K","E","Y">>)
         THEN << Msg(FALSE, "PRIMARY KEY constraint preserved (supported in Databricks)", <<>>) >>
         ELSE << >>)
        \o
        (IF Contains(upper(ddl), <<"F","O","R","E","I","G","N"," ","K","E","Y">>)
         THEN << Msg(TRUE, "FOREIGN KEY constraints are informational only in Databricks", <<>>) >>
         ELSE << >>)
        \o
        (IF re_search(ddl, M_check)
         THEN << Msg(TRUE, "CHECK constraints are informational only in Databricks", <<>>) >>
         ELSE << >>))

\* r'DEFAULT\s+NEWID\(\)'   r'DEFAULT\s+GETDATE\(\)'
M_default(func, s, i) ==
  Match(litI(s, func)[plus(s, IsSpace)[litI(s, <<"D","E","F","A","U","L","T">>)[i]]], <<>>, <<>>)
M_default_newid(s, i) == M_default(<<"N","E","W","I","D","(",")">>, s, i)
M_default_getdate(s, i) == M_default(<<"G","E","T","D","A","T","E","(",")">>, s, i)
_convert_default_values(ddl) ==
  LET RUuid(m) == <<"D","E","F","A","U","L","T"," ","U","U","I","D","(",")">>
      RTimestamp(m) == <<"D","E","F","A","U","L","T"," ","C","U","R","R","E","N","T","_","T","I","M","E","S","T","A","M","P","(",")">>
  IN Stage(re_sub(re_sub(ddl, M_default_newid, RUuid), M_default_getdate, RTimestamp), << >>)

\* Step 5 of convert_ddl
add_using_delta(ddl) ==
  IF Contains(upper(ddl), <<"C","R","E","A","T","E"," ","T","A","B","L","E">>) /\ ~Contains(upper(ddl), <<"U","S","I","N","G"," ","D","E","L","T","A">>)
     /\ Contains(ddl, <<")">>)
  THEN LET last_paren == rfind(ddl, <<")">>)
       IN Stage(SubSeq(ddl, 1, last_paren) \o <<" ","U","S","I","N","G"," ","D","E","L","T","A">>
                  \o SubSeq(ddl, last_paren + 1, Len(ddl)),
                << Msg(FALSE, "Added USING DELTA clause for Delta Lake table format", <<>>) >>)
  ELSE Stage(ddl, << >>)

\* ------------------------------------------ converters/power_m/converter.py
\* Every extraction takes the M script and gives [value, notes]: what it
\* returns and the messages it passes to _log_conversion, in order.  None is
\* the empty text (an extraction never returns an empty text of its own).

Extracted(value, notes) == [value |-> value, notes |-> notes]
\* source_info is a dict: the set of its (key, value) pairs; dict.get(key, default)
dict_get(d, key, default) ==
  IF \E kv \in d : kv[1] = key THEN (CHOOSE kv \in d : kv[1] = key)[2] ELSE default

\* r'Salesforce\.Data\("([^"]+)"'
M_salesforce_data(s, i) ==
  LET a == lit(s, <<"S","a","l","e","s","f","o","r","c","e",".","D","a","t","a","(","\"">>)[i]
      b == plus(s, NotQuote)[a]
  IN Match(lit(s, <<"\"">>)[b], Slice(s, a, b), <<>>)
_extract_source(m_query) ==
  IF Contains(m_query, <<"S","a","l","e","s","f","o","r","c","e",".","D","a","t","a">>)
  THEN IF re_search(m_query, M_salesforce_data)
       THEN Extracted({ <<"type", <<"S","a","l","e","s","f","o","r","c","e">>>>,
                        <<"url", re_finditer(m_query, M_salesforce_data)[1].g1>> },
                      << Msg(FALSE, "Detected Salesforce data source", <<>>) >>)
       ELSE Extracted({ }, << >>)
  ELSE IF Contains(m_query, <<"S","q","l",".","D","a","t","a","b","a","s","e">>) \/ Contains(m_query, <<"S","q","l",".","D","a","t","a","b","a","s","e","s">>)
       THEN Extracted({ <<"type", <<"S","Q","L","S","e","r","v","e","r">>>> },
                      << Msg(FALSE, "Detected SQL Server data source", <<>>) >>)
       ELSE Extracted({ <<"type", <<"U","n","k","n","o","w","n">>>> },
                      << Msg(TRUE, "Could not detect data source type", <<>>) >>)

\* r'\[Name="([^"]+)"\]'
M_name(s, i) ==
  LET a == lit(s, <<"[","N","a","m","e","=","\"">>)[i]
      b == plus(s, NotQuote)[a]
  IN Match(lit(s, <<"\"","]">>)[b], Slice(s, a, b), <<>>)
\* r'Source\{(\[Name="([^"]+)"\])\}\[Data\]'
M_source_name(s, i) ==
  LET o == lit(s, <<"S","o","u","r","c","e","{">>)[i]
      a == lit(s, <<"[","N","a","m","e","=","\"">>)[o]
      b == plus(s, NotQuote)[a]
      c == lit(s, <<"\"","]">>)[b]
  IN Match(lit(s, <<"}","[","D","a","t","a","]">>)[c], Slice(s, o, c), Slice(s, a, b))
\* (a name that would keep its blanks)
lower_with_blanks(table_name) == lower(table_name)
\* table_name.lower().replace(' ', '_')
lower_underscored(table_name) == replace(lower(table_name), <<" ">>, <<"_">>)
\* (an extraction that would try the Source{...}[Data] pattern first)
_extract_table_name_source_first(m_query) ==
  IF re_search(m_query, M_source_name)
  THEN LET table_name == re_finditer(m_query, M_source_name)[1].g2
       IN Extracted(lower_underscored(table_name),
                    << Msg(FALSE, "Extracted Salesforce object name: {0}", <<table_name>>) >>)
  ELSE IF re_search(m_query, M_name)
  THEN LET table_name == re_finditer(m_query, M_name)[1].g1
       IN Extracted(lower_underscored(table_name),
                    << Msg(FALSE, "Extracted table name: {0}", <<table_name>>) >>)
  ELSE Extracted(<<"u","n","k","n","o","w","n","_","t","a","b","l","e">>, << >>)
_extract_table_name(m_query) ==
  IF re_search(m_query, M_name)
  THEN LET table_name == re_finditer(m_query, M_name)[1].g1
       IN Extracted(lower_underscored(table_name),
                    << Msg(FALSE, "Extracted table name: {0}", <<table_name>>) >>)
  ELSE IF re_search(m_query, M_source_name)
  THEN LET table_name == re_finditer(m_query, M_source_name)[1].g2
       IN Extracted(lower_underscored(table_name),
                    << Msg(FALSE, "Extracted Salesforce object name: {0}", <<table_name>>) >>)
  ELSE Extracted(<<"u","n","k","n","o","w","n","_","t","a","b","l","e">>, << >>)

\* r'Table\.SelectColumns\([^,]+,\s*\{([^\}]+)\}'
M_select_columns(s, i) ==
  LET a == lit(s, <<"T","a","b","l","e",".","S","e","l","e","c","t","C","o","l","u","m","n","s","(">>)[i]
      b == lit(s, <<",">>)[plus(s, NotComma)[a]]
      c == lit(s, <<"{">>)[star(s, IsSpace)[b]]
      d == plus(s, NotRBrace)[c]
  IN Match(lit(s, <<"}">>)[d], Slice(s, c, d), <<>>)
\* r'"([^"]+)"'
M_quoted(s, i) ==
  LET a == lit(s, <<"\"">>)[i]
      b == plus(s, NotQuote)[a]
  IN Match(lit(s, <<"\"">>)[b], Slice(s, a, b), <<>>)
_extract_selected_columns(m_query) ==
  IF re_search(m_query, M_select_columns)
  THEN LET columns_str == re_finditer(m_query, M_select_columns)[1].g1
           found == re_finditer(columns_str, M_quoted)
           columns == list([k \in 1..Len(found) |-> found[k].g1])
       IN Extracted(columns,
                    << Msg(FALSE, "Found {0} selected columns", <<str_int(Len(columns))>>) >>)
  ELSE Extracted(<< <<"*">> >>,
                 << Msg(FALSE, "No column selection found, using SELECT *", <<>>) >>)

\* r'Date\.IsInPreviousNDays\(\[([^\]]+)\],\s*(\d+)\)' and the same for
\* Date.IsInPreviousNMonths
M_previous_n(func, s, i) ==
  LET a == lit(s, <<"(","[">>)[lit(s, func)[i]]
      b == plus(s, NotRBracket)[a]
      c == star(s, IsSpace)[lit(s, <<"]",",">>)[b]]
      d == plus(s, IsDigit)[c]
  IN Match(lit(s, <<")">>)[d], Slice(s, a, b), Slice(s, c, d))
\* (a recognizer that would take the months function for the days function)
M_previous_n_days_confused(s, i) == M_previous_n(<<"D","a","t","e",".","I","s","I","n","P","r","e","v","i","o","u","s","N","M","o","n","t","h","s">>, s, i)
M_previous_n_days(s, i) == M_previous_n(<<"D","a","t","e",".","I","s","I","n","P","r","e","v","i","o","u","s","N","D","a","y","s">>, s, i)
M_previous_n_months(s, i) == M_previous_n(<<"D","a","t","e",".","I","s","I","n","P","r","e","v","i","o","u","s","N","M","o","n","t","h","s">>, s, i)
_extract_date_filter(m_query) ==
  IF re_search(m_query, M_previous_n_days)
  THEN LET date_column == re_finditer(m_query, M_previous_n_days)[1].g1
           days == re_finditer(m_query, M_previous_n_days)[1].g2
       IN IF days = <<"3","6","5">>
          THEN Extracted(date_column \o <<" ",">","="," ","C","U","R","R","E","N","T","_","D","A","T","E","(",")"," ","-"," ","I","N","T","E","R","V","A","L"," ">> \o str_int(12)
                           \o <<" ","M","O","N","T","H","S">>,
                         << Msg(FALSE, "Converted Date.IsInPreviousNDays({0}) to 12 months filter",
                                <<days>>) >>)
          ELSE Extracted(date_column \o <<" ",">","="," ","C","U","R","R","E","N","T","_","D","A","T","E","(",")"," ","-"," ","I","N","T","E","R","V","A","L"," ">> \o days \o <<" ","D","A","Y","S">>,
                         << Msg(FALSE, "Converted Date.IsInPreviousNDays({0}) to days filter",
                                <<days>>) >>)
  ELSE IF re_search(m_query, M_previous_n_months)
  THEN LET date_column == re_finditer(m_query, M_previous_n_months)[1].g1
           months == re_finditer(m_query, M_previous_n_months)[1].g2
       IN Extracted(date_column \o <<" ",">","="," ","C","U","R","R","E","N","T","_","D","A","T","E","(",")"," ","-"," ","I","N","T","E","R","V","A","L"," ">> \o months \o <<" ","M","O","N","T","H","S">>,
                    << Msg(FALSE, "Converted Date.IsInPreviousNMonths({0})", <<months>>) >>)
  ELSE Extracted(<< >>, << >>)

\* r'Table\.Sort\([^,]+,\s*\{\{"([^"]+)",\s*Order\.(\w+)\}\}'
M_sort(s, i) ==
  LET a == lit(s, <<"T","a","b","l","e",".","S","o","r","t","(">>)[i]
      b == lit(s, <<",">>)[plus(s, NotComma)[a]]
      c == lit(s, <<"{","{","\"">>)[star(s, IsSpace)[b]]
      d == plus(s, NotQuote)[c]
      e == lit(s, <<"O","r","d","e","r",".">>)[star(s, IsSpace)[lit(s, <<"\"",",">>)[d]]]
      f == plus(s, IsWord)[e]
  IN Match(lit(s, <<"}","}">>)[f], Slice(s, c, d), Slice(s, e, f))
\* (an extraction that would ignore the direction of the sort)
_extract_sort_order_ascending(m_query) ==
  IF re_search(m_query, M_sort)
  THEN LET sort_column == re_finditer(m_query, M_sort)[1].g1
       IN Extracted(sort_column \o <<" ","A","S","C">>,
                    << Msg(FALSE, "Found sort order: {0} {1}", <<sort_column, <<"A","S","C">>>>) >>)
  ELSE Extracted(<< >>, << >>)
_extract_sort_order(m_query) ==
  IF re_search(m_query, M_sort)
  THEN LET sort_column == re_finditer(m_query, M_sort)[1].g1
           order == re_finditer(m_query, M_sort)[1].g2
           order_sql == IF order = <<"D","e","s","c","e","n","d","i","n","g">> THEN <<"D","E","S","C">> ELSE <<"A","S","C">>
       IN Extracted(sort_column \o <<" ">> \o order_sql,
                    << Msg(FALSE, "Found sort order: {0} {1}", <<sort_column, order_sql>>) >>)
  ELSE Extracted(<< >>, << >>)

_build_databricks_query(self_catalog, self_schema, source_info, table_name, selected_columns, date_filter, sort_order) ==
  LET columns_sql == IF selected_columns = << <<"*">> >> THEN <<"*">>
                     ELSE join(<<",","\n"," "," ">>, selected_columns)
      from_clause == IF self_catalog # << >> /\ self_schema # << >>
                     THEN self_catalog \o <<".">> \o self_schema \o <<".">> \o table_name
                     ELSE table_name
      where_clause == IF date_filter # << >> THEN <<"\n","W","H","E","R","E"," ">> \o date_filter ELSE << >>
      order_clause == IF sort_order # << >> THEN <<"\n","O","R","D","E","R"," ","B","Y"," ">> \o sort_order ELSE << >>
      source_type == dict_get(source_info, "type", <<"U","n","k","n","o","w","n">>)
  IN Extracted(<<"-","-"," ","C","o","n","v","e","r","t","e","d"," ","f","r","o","m"," ","P","o","w","e","r"," ","Q","u","e","r","y"," ","M","\n","-","-"," ","S","o","u","r","c","e",":"," ">> \o source_type
                 \o <<"\n","-","-"," ","T","a","r","g","e","t"," ","T","a","b","l","e",":"," ">> \o table_name
                 \o <<"\n","\n","C","R","E","A","T","E"," ","O","R"," ","R","E","P","L","A","C","E"," ","T","A","B","L","E"," ">> \o table_name \o <<" ","A","S","\n","S","E","L","E","C","T","\n"," "," ">>
                 \o columns_sql \o <<"\n","F","R","O","M"," ">> \o from_clause \o where_clause \o order_clause
                 \o <<";">>,
               << Msg(FALSE, "Generated Databricks SQL CREATE TABLE statement", <<>>) >>)

\* ------------------------------------------------------------ documents
\* The texts a caller passes in.  The caller hands a document to the converter
\* of its kind, as convert_to_databricks.py does by file extension: queries and
\* DDL statements to both operations of the TSQLConverter, M scripts to the
\* PowerMConverter; the type mapper is called on any of them.

QueryDocs == {
  <<"S","E","L","E","C","T"," ","G","E","T","D","A","T","E","(",")">>, <<"S","E","L","E","C","T"," ","G","E","T","U","T","C","D","A","T","E","(",")">>, <<"s","e","l","e","c","t"," ","s","y","s","d","a","t","e","t","i","m","e","(",")">>,
  <<"S","E","L","E","C","T"," ","C","A","S","T","(","G","E","T","D","A","T","E","(",")"," ","A","S"," ","D","A","T","E",")">>, <<"s","e","l","e","c","t"," ","c","a","s","t","("," ","g","e","t","d","a","t","e","(",")"," "," ","a","s"," ","d","a","t","e"," ",")">>,
  <<"S","E","L","E","C","T"," ","C","A","S","T","(","x"," ","A","S"," ","D","A","T","E",")">>,
  <<"S","E","L","E","C","T"," ","D","A","T","E","A","D","D","(","d","a","y",","," ","-","7",","," ","G","E","T","D","A","T","E","(",")",")">>, <<"S","E","L","E","C","T"," ","D","A","T","E","A","D","D","(","m","o","n","t","h",","," ","1",","," ","G","E","T","D","A","T","E","(",")",")">>,
  <<"S","E","L","E","C","T"," ","D","A","T","E","A","D","D","(","y","e","a","r",","," ","2",","," ","G","E","T","D","A","T","E","(",")",")">>, <<"S","E","L","E","C","T"," ","D","A","T","E","A","D","D","(","d","a","y",","," ","3",","," ","d",")">>,
  <<"S","E","L","E","C","T"," ","D","A","T","E","D","I","F","F","(","d","a","y",","," ","a",","," ","b",")">>,
  <<"S","E","L","E","C","T"," ","[","a"," ","b","]",","," ","[","a","b","]"," ","F","R","O","M"," ","[","d","-","e","]">>, <<"S","E","L","E","C","T"," ","[","a","\t","b","]">>, <<"S","E","L","E","C","T"," ","[","]"," ","F","R","O","M"," ","t">>,
  <<"S","E","L","E","C","T"," ","[","a","/","b","]",","," ","[","c","\\","d","]">>, <<"S","E","L","E","C","T"," ","a"," ","F","R","O","M"," ","t">>,
  <<"S","E","L","E","C","T"," ","I","S","N","U","L","L","(","a",","," ","0",")",","," ","L","E","N","(","b",")">>, <<"S","E","L","E","C","T"," ","N","E","W","I","D","(",")">>, <<"S","E","L","E","C","T"," ","N","E","W","I","D","(",")","x">>,
  <<"S","E","L","E","C","T"," ","L","E","N","(","x",")",","," ","D","A","T","E","D","I","F","F","(","d","a","y",","," ","a",","," ","b",")",","," ","[","c"," ","d","]">>,
  <<"S","E","L","E","C","T"," ","L","E","N","G","T","H","(","a",")",","," ","I","S","N","U","L","L","A","B","L","E"," ","F","R","O","M"," ","t">>, <<"s","e","l","e","c","t"," ","i","s","n","u","l","l","(","a",","," ","0",")",","," ","n","e","w","i","d","(",")","x">>,
  <<"S","E","L","E","C","T"," ","C","U","R","R","E","N","T","_","T","I","M","E","S","T","A","M","P">>, <<"S","E","L","E","C","T"," ","C","H","A","R","I","N","D","E","X","(","a",","," ","b",")",","," ","S","T","U","F","F","(","c",")",","," ","D","A","T","E","P","A","R","T","(","d",")">>,
  <<" "," ","S","E","L","E","C","T"," ","a"," ",",","b","#","(","l","f",")","F","R","O","M"," ","("," ","t"," ",")"," "," ">>, <<>>,
  <<"S","E","L","E","C","T"," ","a","\r","\n","F","R","O","M"," ","t","\r","\n">>, <<"\f","S","E","L","E","C","T"," ","L","E","N","(","a",")",",","VTAB","G","E","T","D","A","T","E"," ","("," ",")","\r">>,
  <<"FS","S","E","L","E","C","T"," ","[","a","GS","b","]",",","RS","[","c","]","US">> }

\* column definitions and table constraints, and the statements around them
ColumnDocs == {
  <<"i","d"," ","I","N","T"," ","P","R","I","M","A","R","Y"," ","K","E","Y">>, <<"i","d"," ","I","N","T"," ","N","O","T"," ","N","U","L","L">>, <<"x"," ","F","O","O","B","A","R">>, <<"y"," ","I","n","t">>,
  <<"g"," ","U","N","I","Q","U","E","I","D","E","N","T","I","F","I","E","R"," ","D","E","F","A","U","L","T"," ","N","E","W","I","D","(",")">>, <<"g"," ","u","n","i","q","u","e","i","d","e","n","t","i","f","i","e","r"," ","d","e","f","a","u","l","t"," ","n","e","w","i","d","(",")">>,
  <<"d"," ","D","A","T","E","T","I","M","E"," ","D","E","F","A","U","L","T"," ","G","E","T","D","A","T","E","(",")">>, <<"p"," ","D","E","C","I","M","A","L","(","1","0",",","2",")">>, <<"n"," ","N","V","A","R","C","H","A","R","(","5","0",")">>,
  <<"c"," ","I","N","T"," ","C","H","E","C","K"," ","(","c"," ",">"," ","0",")">>, <<"F","O","R","E","I","G","N"," ","K","E","Y"," ","(","a",")"," ","R","E","F","E","R","E","N","C","E","S"," ","u","(","b",")">>, <<"[","m","y"," ","c","o","l","]"," ","B","I","T">> }
DdlDocs ==
  {<<"C","R","E","A","T","E"," ","T","A","B","L","E"," ","t"," ","(">> \o c \o <<")">> : c \in ColumnDocs}
  \cup {<<"C","R","E","A","T","E"," ","T","A","B","L","E"," ","t"," ","(","\n"," "," ">> \o c \o <<"\n",")">> : c \in ColumnDocs}
  \cup { <<"C","R","E","A","T","E"," ","T","A","B","L","E"," ","t">>, <<"c","r","e","a","t","e"," ","t","a","b","l","e"," ","t"," ","(","\n"," "," ","a"," ","i","n","t","\n",")">>,
         <<"C","R","E","A","T","E"," ","T","A","B","L","E"," ","t"," ","(","a"," ","I","N","T",")"," ","U","S","I","N","G"," ","D","E","L","T","A">>,
         <<"C","R","E","A","T","E"," ","T","A","B","L","E"," ","t"," ","(","\n"," "," ","i","d"," ","I","N","T"," ","P","R","I","M","A","R","Y"," ","K","E","Y",",","\n"," "," ","x"," ","F","O","O","B","A","R","\n",")",";">>,
         <<"A","L","T","E","R"," ","T","A","B","L","E"," ","t"," ","A","D","D","\n","F","O","R","E","I","G","N"," ","K","E","Y"," ","(","a",")"," ","R","E","F","E","R","E","N","C","E","S"," ","u","(","b",")">>,
         <<"a","l","t","e","r"," ","t","a","b","l","e"," ","t"," ","a","d","d"," ","g"," ","d","e","f","a","u","l","t"," ","n","e","w","i","d","(",")">>,
         <<"C","R","E","A","T","E"," ","T","A","B","L","E"," ","t"," ","(","\r","\n"," "," ","i","d"," ","I","N","T"," ","N","O","T"," ","N","U","L","L",",","\r","\n"," "," ","n","\f","N","V","A","R","C","H","A","R","(","5","0",")","\r","\n",")","\r","\n">>,
         <<"C","R","E","A","T","E"," ","T","A","B","L","E"," ","t"," ","(","C","H","E","C","K"," ","(","c"," ",">"," ","0",")",","," ","F","O","R","E","I","G","N"," ","K","E","Y"," ","(","c",")"," ","R","E","F","E","R","E","N","C","E","S"," ","u","(","b",")",","," ","P","R","I","M","A","R","Y"," ","K","E","Y"," ","(","c",")",",","\n"," "," ","d"," ","D","A","T","E","T","I","M","E",",","\n"," "," ","[","e","]"," ","B","I","T","\n",")">> }

\* type tokens BASE and BASE(params), in upper, lower and mixed case
TypeNames ==
  DOMAIN SQL_SERVER_TO_DATABRICKS_TYPES
  \cup { <<"i","n","t">>, <<"b","i","t">>, <<"d","e","c","i","m","a","l">>, <<"N","u","m","e","r","i","c">>, <<"n","v","a","r","c","h","a","r">>, <<"M","o","n","e","y">>, <<"f","l","o","a","t">>,
         <<"d","a","t","e","t","i","m","e","2">>, <<"F","O","O","B","A","R">> }
TypeParams == { <<>>, <<"(","1","0",",","2",")">>, <<"(","1","0","0",")">> }
TypeDocs == {n \o q : n \in TypeNames, q \in TypeParams}

\* Power Query M scripts
PowerMDocs == {
  <<"S","o","u","r","c","e"," ","="," ","S","a","l","e","s","f","o","r","c","e",".","D","a","t","a","(","\"","h","t","t","p","s",":","/","/","x","\"",")",","," ","T"," ","="," ","S","o","u","r","c","e","{","[","N","a","m","e","=","\"","O","p","e","n"," ","D","e","a","l","\"","]","}","[","D","a","t","a","]">>,
  <<"S","a","l","e","s","f","o","r","c","e",".","D","a","t","a","(","u","r","l",")"," ","[","N","a","m","e","=","\"","A","c","c","o","u","n","t","\"","]">>,
  <<"S","q","l",".","D","a","t","a","b","a","s","e","(","\"","s","\"",","," ","\"","d","\"",")","{","[","N","a","m","e","=","\"","S","a","l","e","s","\"","]","}">>,
  <<"T","a","b","l","e",".","S","e","l","e","c","t","C","o","l","u","m","n","s","(","T",","," ","{","\"","I","d","\"",","," ","\"","A","m","o","u","n","t","\"","}",")">>,
  <<"T","a","b","l","e",".","S","e","l","e","c","t","C","o","l","u","m","n","s","(","T",",","{","\"","\"",","," ","\"","a","\"","}",")">>,
  <<"T","a","b","l","e",".","S","e","l","e","c","t","C","o","l","u","m","n","s","(","T",","," ","{","I","d","}",")">>,
  <<"D","a","t","e",".","I","s","I","n","P","r","e","v","i","o","u","s","N","D","a","y","s","(","[","C","l","o","s","e","D","a","t","e","]",","," ","3","6","5",")">>,
  <<"D","a","t","e",".","I","s","I","n","P","r","e","v","i","o","u","s","N","D","a","y","s","(","[","d","]",",","3","0",")">>,
  <<"D","a","t","e",".","I","s","I","n","P","r","e","v","i","o","u","s","N","M","o","n","t","h","s","(","[","d","]",","," ","6",")">>,
  <<"D","a","t","e",".","I","s","I","n","P","r","e","v","i","o","u","s","N","D","a","y","s","(","[","d","]",","," ","0","3","6","5",")">>,
  <<"D","a","t","e",".","I","s","I","n","P","r","e","v","i","o","u","s","N","M","o","n","t","h","s","(","[","m","]",","," ","6",")"," ","D","a","t","e",".","I","s","I","n","P","r","e","v","i","o","u","s","N","D","a","y","s","(","[","a"," ","b","]",","," ","3","6","5","0",")">>,
  <<"T","a","b","l","e",".","S","o","r","t","(","T",","," ","{","{","\"","A","m","o","u","n","t","\"",","," ","O","r","d","e","r",".","D","e","s","c","e","n","d","i","n","g","}","}",")">>,
  <<"T","a","b","l","e",".","S","o","r","t","(","T",",","{","{","\"","a","\"",","," ","O","r","d","e","r",".","A","s","c","e","n","d","i","n","g","}","}",")">>,
  <<"T","a","b","l","e",".","S","o","r","t","(","T",","," ","{","{","\"","a"," ","b","\"",","," ","O","r","d","e","r",".","d","e","s","c","e","n","d","i","n","g","}","}",")">>,
  <<"T","a","b","l","e",".","S","o","r","t","(","T",","," ","{","{","\"","a","\"",","," ","O","r","d","e","r",".","D","e","s","c","e","n","d","i","n","g","}",","," ","{","\"","b","\"",","," ","O","r","d","e","r",".","A","s","c","e","n","d","i","n","g","}","}",")">>,
  <<"l","e","t"," ","x"," ","="," ","1"," ","i","n"," ","x">>, <<"S","a","l","e","s","f","o","r","c","e",".","D","a","t","a","(","u",")"," ","S","q","l",".","D","a","t","a","b","a","s","e","(","\"","s","\"",")">>,
  <<"[","N","a","m","e","=","\"","B","\"","]"," ","S","o","u","r","c","e","{","[","N","a","m","e","=","\"","A","\"","]","}","[","D","a","t","a","]">>,
  <<"[","N","a","m","e","=","\"","B"," ","c"," "," ","D","\"","]"," ","[","N","a","m","e","=","\"","e","\"","]">>,
  <<"S","q","l",".","D","a","t","a","b","a","s","e","(","\"","s","\"",")","\r","\n","[","N","a","m","e","=","\"","T","\"","]","\r","\n","T","a","b","l","e",".","S","e","l","e","c","t","C","o","l","u","m","n","s","(","T",",","\r","\n"," "," ","{","\"","a","\"",",","\r","\n","\"","b","\"","}",")">>,
  <<"S","q","l",".","D","a","t","a","b","a","s","e","s","(","\"","s","\"",")"," ","[","N","a","m","e","=","\"","T","\"","]","\n","T","a","b","l","e",".","S","e","l","e","c","t","C","o","l","u","m","n","s","(","T",","," ","{","\"","a","\"",","," ","\"","b","\"","}",")","\n","D","a","t","e",".","I","s","I","n","P","r","e","v","i","o","u","s","N","D","a","y","s","(","[","d","]",","," ","7",")","\n","T","a","b","l","e",".","S","o","r","t","(","T",","," ","{","{","\"","a","\"",","," ","O","r","d","e","r",".","D","e","s","c","e","n","d","i","n","g","}","}",")">> }

Docs == QueryDocs \cup DdlDocs \cup TypeDocs \cup PowerMDocs

\* the (catalog, schema) pairs an instance is constructed with; the empty text
\* stands for None (and for '': both are false in "if self.catalog and self.schema")
Configs == { [catalog |-> << >>, schema |-> << >>], [catalog |-> <<"m","a","i","n">>, schema |-> <<"d","w">>] }

\* the number of calls a caller makes on one instance
MaxCalls == 2

\* ---------------------------------------------------------- state machine
\* One TSQLConverter instance, one PowerMConverter instance constructed with
\* the same catalog and schema, and their caller.  A call of convert_query or
\* convert_ddl runs stage by stage: pc is the stage the call in flight is
\* about to run ("idle" between calls), idx the loop index inside a stage.
\* A call of PowerMConverter.convert runs extraction by extraction in the same
\* way.

VARIABLES
  catalog, schema,   \* self.catalog, self.schema
  conversion_log,    \* self.conversion_log of the TSQLConverter
  power_m_log,       \* self.conversion_log of the PowerMConverter
  doc,               \* the text the caller holds and passes to the next call
  op, input,         \* the call in flight (or the last one): its name and argument
  converted,         \* the local variable "converted" of the call in flight
  pc, idx,
  source_info, table_name, selected_columns, date_filter, sort_order,
                     \* the local variables of the call of convert in flight
  fresh_log,         \* the conversion_log of an instance constructed for this call alone
  returns,           \* what the calls made so far returned, in order
  threads,           \* the calls of concurrent callers: each one's instance and locals
  lists,             \* the list objects the instances' logs are, by identity
  instance_log,      \* self.conversion_log of each instance: the list it is bound to
  directory,         \* the entries of the input directory, in the order the file system lists them
  files,             \* convert_all_files: the files discovered
  file_idx,          \* the position of the loop over files / over conversion_results
  tool_pc,           \* where the MigrationTool is
  conversion_results, test_results,   \* self.conversion_results, self.test_results
  output_files,      \* the files in the output directory: (path, content) pairs
  executed,          \* the statements passed to client.execute_sql, in order
  dry_run            \* the argument of test_conversions

\* the local variables of PowerMConverter.convert
power_m_locals == <<source_info, table_name, selected_columns, date_filter, sort_order>>
\* the state of the MigrationTool and of its directories
tool_vars == <<directory, files, file_idx, tool_pc, conversion_results, test_results,
               output_files, executed, dry_run>>
vars == <<catalog, schema, conversion_log, power_m_log, doc, op, input, converted, pc, idx,
          power_m_locals, fresh_log, returns, threads, lists, instance_log, tool_vars>>

Returned(o, i, text, log) == [op |-> o, input |-> i, text |-> text, log |-> log]
Last(seq) == seq[Len(seq)]

\* TSQLConverter.__init__, PowerMConverter.__init__ and the caller picking its
\* document
Init ==
  /\ \E c \in Configs : catalog = c.catalog /\ schema = c.schema
  /\ conversion_log = << >>
  /\ power_m_log = << >>
  /\ doc \in Docs
  /\ op = "none" /\ input = << >> /\ converted = << >>
  /\ pc = "idle" /\ idx = 0
  /\ source_info = { } /\ table_name = << >> /\ selected_columns = << >>
  /\ date_filter = << >> /\ sort_order = << >>
  /\ fresh_log = << >>
  /\ returns = << >>
  /\ threads = << >> /\ lists = << >> /\ instance_log = << >>
  /\ directory = << >> /\ files = << >> /\ file_idx = 0 /\ tool_pc = "none"
  /\ conversion_results = << >> /\ test_results = << >> /\ output_files = { }
  /\ executed = << >> /\ dry_run = FALSE

\* the first two statements of convert_query / convert_ddl
begin_call(o, next_pc) ==
  /\ pc = "idle" /\ Len(returns) < MaxCalls
  /\ doc \notin TypeDocs \cup PowerMDocs
  /\ op' = o /\ input' = doc
  /\ conversion_log' = reset_log(conversion_log)
  /\ fresh_log' = << >>
  /\ converted' = doc
  /\ pc' = next_pc /\ idx' = 0
  /\ UNCHANGED <<catalog, schema, threads, lists, instance_log, tool_vars, power_m_log, power_m_locals, doc, returns>>
convert_query_begin == begin_call("convert_query", "identifiers")
convert_ddl_begin == begin_call("convert_ddl", "identifiers")

\* converted = self._stage(converted): the stage's text, and its notes appended
\* to the log of the instance (and of the instance constructed for this call)
run_stage(r, next_pc, next_idx) ==
  /\ converted' = r.sql
  /\ conversion_log' = log_each(conversion_log, r.notes)
  /\ fresh_log' = log_each(fresh_log, r.notes)
  /\ pc' = next_pc /\ idx' = next_idx
  /\ UNCHANGED <<catalog, schema, threads, lists, instance_log, tool_vars, power_m_log, power_m_locals, doc, op, input, returns>>
\* the last stage of a call and its return statement
run_stage_and_return(r) ==
  /\ converted' = r.sql
  /\ conversion_log' = log_each(conversion_log, r.notes)
  /\ fresh_log' = log_each(fresh_log, r.notes)
  /\ returns' = Append(returns, Returned(op, input, r.sql, log_each(conversion_log, r.notes)))
  /\ pc' = "idle" /\ idx' = 0
  /\ UNCHANGED <<catalog, schema, threads, lists, instance_log, tool_vars, power_m_log, power_m_locals, doc, op, input>>

\* Step 1 of both pipelines
step_identifiers ==
  /\ pc = "identifiers"
  /\ run_stage(_convert_identifiers(converted),
               IF op = "convert_query" THEN "date_patterns" ELSE "data_types",
               IF op = "convert_query" THEN 1 ELSE 0)

\* convert_query, Step 2: the loop of _convert_date_functions, one turn
step_date_pattern ==
  /\ pc = "date_patterns"
  /\ run_stage(apply_date_pattern(idx, converted),
               IF idx < Len(DATE_FUNCTION_PATTERNS) THEN "date_patterns" ELSE "date_special_cases",
               IF idx < Len(DATE_FUNCTION_PATTERNS) THEN idx + 1 ELSE 0)
\* convert_query, Step 2: the rest of _convert_date_functions
step_date_special_cases ==
  /\ pc = "date_special_cases"
  /\ run_stage(convert_date_special_cases(converted), "system_functions", 1)
\* convert_query, Step 3: the loop of _convert_system_functions, one turn
step_system_function ==
  /\ pc = "system_functions"
  /\ run_stage(apply_function_mapping(idx, converted),
               IF idx < Len(TSQL_FUNCTION_MAPPINGS) THEN "system_functions" ELSE "table_references",
               IF idx < Len(TSQL_FUNCTION_MAPPINGS) THEN idx + 1 ELSE 0)
\* convert_query, Step 4
step_table_references ==
  /\ pc = "table_references"
  /\ run_stage(_convert_table_references(converted, catalog, schema), "clean_format", 0)
\* convert_query, Step 5 and the return
step_clean_format_return ==
  /\ pc = "clean_format"
  /\ run_stage_and_return(Stage(_clean_format(converted), << >>))

\* convert_ddl, Step 2
step_data_types ==
  /\ pc = "data_types"
  /\ run_stage(_convert_data_types(converted), "constraints", 0)
\* convert_ddl, Step 3
step_constraints ==
  /\ pc = "constraints"
  /\ run_stage(_convert_constraints(converted), "default_values", 0)
\* convert_ddl, Step 4
step_default_values ==
  /\ pc = "default_values"
  /\ run_stage(_convert_default_values(converted), "using_delta", 0)
\* convert_ddl, Step 5 and the return
step_using_delta_return ==
  /\ pc = "using_delta"
  /\ run_stage_and_return(add_using_delta(converted))

\* a call of the module-level function map_sql_server_type on the document
call_map_sql_server_type ==
  /\ pc = "idle" /\ Len(returns) < MaxCalls
  /\ returns' = Append(returns, Returned("map_sql_server_type", doc, map_sql_server_type(doc), << >>))
  /\ UNCHANGED <<catalog, schema, threads, lists, instance_log, tool_vars, conversion_log, power_m_log, power_m_locals, doc, op,
                 input, converted, pc, idx, fresh_log>>

\* PowerMConverter.convert: entry, the reset of the log
convert_begin ==
  /\ pc = "idle" /\ Len(returns) < MaxCalls
  /\ doc \in PowerMDocs
  /\ op' = "convert" /\ input' = doc
  /\ power_m_log' = reset_log(power_m_log)
  /\ fresh_log' = << >>
  /\ pc' = "extract_source"
  /\ UNCHANGED <<catalog, schema, threads, lists, instance_log, tool_vars, conversion_log, power_m_locals, doc, converted, idx, returns>>
\* the notes of one extraction appended to the log of the instance (and of the
\* instance constructed for this call)
log_extraction(e, next_pc) ==
  /\ power_m_log' = log_each(power_m_log, e.notes)
  /\ fresh_log' = log_each(fresh_log, e.notes)
  /\ pc' = next_pc
  /\ UNCHANGED <<catalog, schema, threads, lists, instance_log, tool_vars, conversion_log, doc, op, input, converted, idx, returns>>
step_extract_source ==
  /\ pc = "extract_source"
  /\ \E e \in {_extract_source(input)} :
       source_info' = e.value /\ log_extraction(e, "extract_table_name")
  /\ UNCHANGED <<table_name, selected_columns, date_filter, sort_order>>
step_extract_table_name ==
  /\ pc = "extract_table_name"
  /\ \E e \in {_extract_table_name(input)} :
       table_name' = e.value /\ log_extraction(e, "extract_selected_columns")
  /\ UNCHANGED <<source_info, selected_columns, date_filter, sort_order>>
step_extract_selected_columns ==
  /\ pc = "extract_selected_columns"
  /\ \E e \in {_extract_selected_columns(input)} :
       selected_columns' = e.value /\ log_extraction(e, "extract_date_filter")
  /\ UNCHANGED <<source_info, table_name, date_filter, sort_order>>
step_extract_date_filter ==
  /\ pc = "extract_date_filter"
  /\ \E e \in {_extract_date_filter(input)} :
       date_filter' = e.value /\ log_extraction(e, "extract_sort_order")
  /\ UNCHANGED <<source_info, table_name, selected_columns, sort_order>>
step_extract_sort_order ==
  /\ pc = "extract_sort_order"
  /\ \E e \in {_extract_sort_order(input)} :
       sort_order' = e.value /\ log_extraction(e, "build_databricks_query")
  /\ UNCHANGED <<source_info, table_name, selected_columns, date_filter>>
\* the call of _build_databricks_query and the return; the locals end with the call
step_build_query_return ==
  /\ pc = "build_databricks_query"
  /\ \E e \in {_build_databricks_query(catalog, schema, source_info, table_name, selected_columns, date_filter, sort_order)} :
       /\ power_m_log' = log_each(power_m_log, e.notes)
       /\ fresh_log' = log_each(fresh_log, e.notes)
       /\ returns' = Append(returns, Returned(op, input, e.value, log_each(power_m_log, e.notes)))
  /\ source_info' = { } /\ table_name' = << >> /\ selected_columns' = << >>
  /\ date_filter' = << >> /\ sort_order' = << >>
  /\ pc' = "idle"
  /\ UNCHANGED <<catalog, schema, threads, lists, instance_log, tool_vars, conversion_log, doc, op, input, converted, idx>>

\* the caller takes the text the last T-SQL conversion returned as its next
\* document
take_output ==
  /\ pc = "idle" /\ returns # << >>
  /\ Last(returns).op \in {"convert_query", "convert_ddl"}
  /\ Last(returns).text # doc
  /\ doc' = Last(returns).text
  /\ UNCHANGED <<catalog, schema, threads, lists, instance_log, tool_vars, conversion_log, power_m_log, power_m_locals, op, input,
                 converted, pc, idx, fresh_log, returns>>

Next ==
  \/ convert_query_begin
  \/ convert_ddl_begin
  \/ step_identifiers
  \/ step_date_pattern
  \/ step_date_special_cases
  \/ step_system_function
  \/ step_table_references
  \/ step_clean_format_return
  \/ step_data_types
  \/ step_constraints
  \/ step_default_values
  \/ step_using_delta_return
  \/ call_map_sql_server_type
  \/ convert_begin
  \/ step_extract_source
  \/ step_extract_table_name
  \/ step_extract_selected_columns
  \/ step_extract_date_filter
  \/ step_extract_sort_order
  \/ step_build_query_return
  \/ take_output

Spec == Init /\ [][Next]_vars

\* ------------------------------------------- converters/fabric/converter.py
\* FabricConverter(TSQLConverter): the inherited operations on an instance
\* whose constructor has logged one note.

Then(stage, next_stage(_)) ==
  LET r == next_stage(stage.sql) IN Stage(r.sql, stage.notes \o r.notes)
\* TSQLConverter.convert_query and convert_ddl on an instance of their own, as
\* the pair they return
convert_query(tsql_query, self_catalog, self_schema) ==
  LET dates[k \in 0..Len(DATE_FUNCTION_PATTERNS)] ==
        IF k = 0 THEN _convert_identifiers(tsql_query)
        ELSE LET turn(sql) == apply_date_pattern(k, sql) IN Then(dates[k - 1], turn)
      special == Then(dates[Len(DATE_FUNCTION_PATTERNS)], convert_date_special_cases)
      functions[k \in 0..Len(TSQL_FUNCTION_MAPPINGS)] ==
        IF k = 0 THEN special
        ELSE LET turn(sql) == apply_function_mapping(k, sql) IN Then(functions[k - 1], turn)
      references(sql) == _convert_table_references(sql, self_catalog, self_schema)
      last == Then(functions[Len(TSQL_FUNCTION_MAPPINGS)], references)
  IN [text |-> _clean_format(last.sql), log |-> log_each(<< >>, last.notes)]
convert_ddl(tsql_ddl, self_catalog, self_schema) ==
  LET last == Then(Then(Then(Then(_convert_identifiers(tsql_ddl), _convert_data_types),
                             _convert_constraints), _convert_default_values), add_using_delta)
  IN [text |-> last.sql, log |-> log_each(<< >>, last.notes)]

convert_fabric_specific_features(sql) == sql

\* FabricConverter.__init__: TSQLConverter.__init__, then the note
FabricNote == Msg(FALSE, "Using Fabric Datamart converter (T-SQL dialect)", <<>>)
InitFabric ==
  /\ \E c \in Configs : catalog = c.catalog /\ schema = c.schema
  /\ conversion_log = _log_conversion(<< >>, FabricNote)
  /\ power_m_log = << >>
  /\ doc \in QueryDocs \cup DdlDocs
  /\ op = "none" /\ input = << >> /\ converted = << >>
  /\ pc = "idle" /\ idx = 0
  /\ source_info = { } /\ table_name = << >> /\ selected_columns = << >>
  /\ date_filter = << >> /\ sort_order = << >>
  /\ fresh_log = << >>
  /\ returns = << >>
  /\ threads = << >> /\ lists = << >> /\ instance_log = << >>
  /\ directory = << >> /\ files = << >> /\ file_idx = 0 /\ tool_pc = "none"
  /\ conversion_results = << >> /\ test_results = << >> /\ output_files = { }
  /\ executed = << >> /\ dry_run = FALSE
call_convert_fabric_specific_features ==
  /\ pc = "idle" /\ Len(returns) < MaxCalls
  /\ returns' = Append(returns, Returned("convert_fabric_specific_features", doc,
                                         convert_fabric_specific_features(doc), << >>))
  /\ UNCHANGED <<catalog, schema, threads, lists, instance_log, tool_vars, conversion_log, power_m_log, power_m_locals, doc, op,
                 input, converted, pc, idx, fresh_log>>
NextFabric ==
  \/ convert_query_begin
  \/ convert_ddl_begin
  \/ step_identifiers
  \/ step_date_pattern
  \/ step_date_special_cases
  \/ step_system_function
  \/ step_table_references
  \/ step_clean_format_return
  \/ step_data_types
  \/ step_constraints
  \/ step_default_values
  \/ step_using_delta_return
  \/ call_convert_fabric_specific_features
  \/ take_output
SpecFabric == InitFabric /\ [][NextFabric]_vars

\* ------------------------------------------------------ concurrent callers
\* Callers running in threads of their own.  Each caller makes one call of
\* convert_query or convert_ddl on a TSQLConverter instance; two callers hold
\* either the same instance or one each.  A call's locals (tsql_query,
\* converted) are the thread's own; self.conversion_log is an attribute of the
\* instance, bound to a list object, and the call returns that object.  The
\* threads interleave between the statements of convert_query / convert_ddl
\* (and between the turns of the two loops).

Threads == {1, 2}
Instances == {1, 2}
\* the calls a thread may make
ThreadCalls == {
  [op |-> "convert_query", input |-> <<"S","E","L","E","C","T"," ","[","a"," ","b","]",","," ","[","a","b","]"," ","F","R","O","M"," ","[","d","-","e","]">>],
  [op |-> "convert_ddl", input |-> <<"C","R","E","A","T","E"," ","T","A","B","L","E"," ","t"," ","(","\n"," "," ","i","d"," ","I","N","T"," ","P","R","I","M","A","R","Y"," ","K","E","Y",",","\n"," "," ","x"," ","F","O","O","B","A","R","\n",")",";">>] }

\* a thread about to call self.op(input), self being an instance; inside a
\* stage, pending holds the messages the stage has still to log and result what
\* it will return
Thread(self, call) ==
  [self |-> self, op |-> call.op, input |-> call.input, converted |-> << >>,
   pc |-> "ready", idx |-> 0, pending |-> << >>, result |-> << >>, text |-> << >>, log |-> 0]

\* the statement converted = self._stage(converted) (or one turn of a loop) at
\* position p, k of the pipeline of o: what the stage gives, and the position
\* after it
pipeline_stage(o, p, k, sql, self_catalog, self_schema) ==
  CASE p = "identifiers" ->
         [stage |-> _convert_identifiers(sql),
          pc |-> IF o = "convert_query" THEN "date_patterns" ELSE "data_types",
          idx |-> IF o = "convert_query" THEN 1 ELSE 0]
    [] p = "date_patterns" ->
         [stage |-> apply_date_pattern(k, sql),
          pc |-> IF k < Len(DATE_FUNCTION_PATTERNS) THEN "date_patterns" ELSE "date_special_cases",
          idx |-> IF k < Len(DATE_FUNCTION_PATTERNS) THEN k + 1 ELSE 0]
    [] p = "date_special_cases" ->
         [stage |-> convert_date_special_cases(sql), pc |-> "system_functions", idx |-> 1]
    [] p = "system_functions" ->
         [stage |-> apply_function_mapping(k, sql),
          pc |-> IF k < Len(TSQL_FUNCTION_MAPPINGS) THEN "system_functions" ELSE "table_references",
          idx |-> IF k < Len(TSQL_FUNCTION_MAPPINGS) THEN k + 1 ELSE 0]
    [] p = "table_references" ->
         [stage |-> _convert_table_references(sql, self_catalog, self_schema),
          pc |-> "clean_format", idx |-> 0]
    [] p = "clean_format" ->
         [stage |-> Stage(_clean_format(sql), << >>), pc |-> "return", idx |-> 0]
    [] p = "data_types" ->
         [stage |-> _convert_data_types(sql), pc |-> "constraints", idx |-> 0]
    [] p = "constraints" ->
         [stage |-> _convert_constraints(sql), pc |-> "default_values", idx |-> 0]
    [] p = "default_values" ->
         [stage |-> _convert_default_values(sql), pc |-> "using_delta", idx |-> 0]
    [] p = "using_delta" ->
         [stage |-> add_using_delta(sql), pc |-> "return", idx |-> 0]

\* self.conversion_log = []: the attribute of the instance self is bound to
\* the new list
bind_list_class_attribute(bound, self, id) == [i \in DOMAIN bound |-> id]
bind_list(bound, self, id) == [bound EXCEPT ![self] = id]

\* every caller constructs or is handed its instance (TSQLConverter.__init__
\* binds a new empty list) and picks its call
InitThreads ==
  /\ \E c \in Configs : catalog = c.catalog /\ schema = c.schema
  /\ conversion_log = << >> /\ power_m_log = << >>
  /\ doc = << >> /\ op = "none" /\ input = << >> /\ converted = << >>
  /\ pc = "idle" /\ idx = 0
  /\ source_info = { } /\ table_name = << >> /\ selected_columns = << >>
  /\ date_filter = << >> /\ sort_order = << >>
  /\ fresh_log = << >> /\ returns = << >>
  /\ lists = [i \in Instances |-> << >>]
  /\ instance_log = [i \in Instances |-> i]
  /\ directory = << >> /\ files = << >> /\ file_idx = 0 /\ tool_pc = "none"
  /\ conversion_results = << >> /\ test_results = << >> /\ output_files = { }
  /\ executed = << >> /\ dry_run = FALSE
  /\ \E first \in ThreadCalls, second \in ThreadCalls, other \in Instances :
       threads = [t \in Threads |-> IF t = 1 THEN Thread(1, first) ELSE Thread(other, second)]

\* the first two statements of convert_query / convert_ddl in thread t
thread_begin == \E t \in Threads :
  /\ threads[t].pc = "ready"
  /\ lists' = Append(lists, << >>)
  /\ instance_log' = bind_list(instance_log, threads[t].self, Len(lists) + 1)
  /\ threads' = [threads EXCEPT ![t].converted = threads[t].input, ![t].pc = "identifiers"]
  /\ UNCHANGED <<catalog, schema, tool_vars, conversion_log, power_m_log, power_m_locals, doc, op, input,
                 converted, pc, idx, fresh_log, returns>>
\* converted = self._stage(converted) in thread t, up to the first call of
\* _log_conversion the stage makes; a stage that logs nothing returns at once
thread_step == \E t \in Threads :
  /\ threads[t].pc \notin {"ready", "return", "done"} /\ threads[t].pending = << >>
  /\ \E th \in {threads[t]} :
       \E s \in {pipeline_stage(th.op, th.pc, th.idx, th.converted, catalog, schema)} :
         threads' = IF s.stage.notes = << >>
                    THEN [threads EXCEPT ![t].converted = s.stage.sql, ![t].pc = s.pc, ![t].idx = s.idx]
                    ELSE [threads EXCEPT ![t].pending = s.stage.notes,
                                         ![t].result = [sql |-> s.stage.sql, pc |-> s.pc, idx |-> s.idx]]
  /\ UNCHANGED <<catalog, schema, tool_vars, conversion_log, power_m_log, power_m_locals, doc, op, input,
                 converted, pc, idx, fresh_log, returns, lists, instance_log>>
\* one call self._log_conversion(message) of the stage thread t is in: the
\* entry is appended to the list self.conversion_log is bound to at this
\* moment; after its last call the stage returns
thread_log == \E t \in Threads :
  /\ threads[t].pending # << >>
  /\ \E th \in {threads[t]} :
       /\ lists' = [lists EXCEPT ![instance_log[th.self]] = _log_conversion(@, Head(th.pending))]
       /\ threads' = IF Len(th.pending) > 1
                      THEN [threads EXCEPT ![t].pending = Tail(th.pending)]
                      ELSE [threads EXCEPT ![t].pending = << >>, ![t].result = << >>,
                                           ![t].converted = th.result.sql,
                                           ![t].pc = th.result.pc, ![t].idx = th.result.idx]
  /\ UNCHANGED <<catalog, schema, tool_vars, conversion_log, power_m_log, power_m_locals, doc, op, input,
                 converted, pc, idx, fresh_log, returns, instance_log>>
\* return converted, self.conversion_log in thread t: the caller receives the
\* list the attribute is bound to at this moment
thread_return == \E t \in Threads :
  /\ threads[t].pc = "return"
  /\ threads' = [threads EXCEPT ![t].text = threads[t].converted,
                                ![t].log = instance_log[threads[t].self], ![t].pc = "done"]
  /\ UNCHANGED <<catalog, schema, tool_vars, conversion_log, power_m_log, power_m_locals, doc, op, input,
                 converted, pc, idx, fresh_log, returns, lists, instance_log>>

NextThreads == thread_begin \/ thread_step \/ thread_log \/ thread_return

SpecThreads == InitThreads /\ [][NextThreads]_vars

\* ------------------------------------------------------- the MigrationTool
\* MigrationTool('in', 'out', catalog, schema), on local directories:
\* convert_all_files discovers the files of the input directory and converts
\* them one by one with converters of its own, each conversion running stage
\* by stage as above; test_conversions then reads the written files back and
\* validates or executes them.  What the file system and the warehouse answer (a read or a
\* write that raises, a connection test, a validation, an execution) is chosen
\* by the environment.

DEFAULT_CATALOG == <<"h","l","s","_","a","m","e","r","_","c","a","t","a","l","o","g">>
DEFAULT_SCHEMA == <<"d","e","f","a","u","l","t">>

\* a directory entry: its name, what read_text gives (content, or the message
\* of the exception it raises), and the message of the exception writing its
\* output file raises, if any
SourceFiles ==
  LET SourceFile(name, content, read_error, write_error) ==
        [name |-> name, content |-> content, read_error |-> read_error, write_error |-> write_error]
  IN {
  SourceFile(<<"q",".","s","q","l">>, <<"S","E","L","E","C","T"," ","[","a"," ","b","]",","," ","[","a","b","]"," ","F","R","O","M"," ","[","d","-","e","]">>, << >>, << >>),
  SourceFile(<<"t",".","s","q","l">>, <<"c","r","e","a","t","e"," ","t","a","b","l","e"," ","t"," ","(","\n"," "," ","a"," ","i","n","t","\n",")">>, << >>, << >>),
  SourceFile(<<"s",".","m">>, <<"S","q","l",".","D","a","t","a","b","a","s","e","(","\"","s","\"",","," ","\"","d","\"",")","{","[","N","a","m","e","=","\"","S","a","l","e","s","\"","]","}">>, << >>, << >>),
  SourceFile(<<".","s","q","l">>, <<"S","E","L","E","C","T"," ","1">>, << >>, << >>),
  SourceFile(<<"d",".","s","q","l">>, << >>, <<"[","E","r","r","n","o"," ","2","1","]"," ","I","s"," ","a"," ","d","i","r","e","c","t","o","r","y",":"," ","'","i","n","/","d",".","s","q","l","'">>, << >>),
  SourceFile(<<"w",".","s","q","l">>, <<"S","E","L","E","C","T"," ","a"," ","F","R","O","M"," ","t">>, << >>, <<"[","E","r","r","n","o"," ","2","8","]"," ","N","o"," ","s","p","a","c","e"," ","l","e","f","t"," ","o","n"," ","d","e","v","i","c","e">>),
  SourceFile(<<"c","\n","S","E","L","E","C","T"," ","1",".","s","q","l">>, <<"S","E","L","E","C","T"," ","3">>, << >>, << >>),
  SourceFile(<<"e","\r","s","e","l","e","c","t"," ","1",".","s","q","l">>, <<"S","E","L","E","C","T"," ","4">>, << >>, << >>),
  SourceFile(<<"r","e","a","d","m","e",".","t","x","t">>, <<"S","E","L","E","C","T"," ","2">>, << >>, << >>) }
\* the number of entries of the input directory, at most
MaxFiles == 2
\* the input directories: their entries in the order the file system lists them
Directories ==
  UNION {{list(d) : d \in {e \in [1..n -> SourceFiles] : \A i \in 1..n, j \in 1..n : i # j => e[i] # e[j]}} :
         n \in 0..MaxFiles}

\* Path.suffix and Path.stem of a file name
suffix(name) ==
  LET i == rfind(name, <<".">>)
  IN IF 1 < i /\ i < Len(name) THEN SubSeq(name, i, Len(name)) ELSE << >>
stem(name) ==
  LET i == rfind(name, <<".">>)
  IN IF 1 < i /\ i < Len(name) THEN SubSeq(name, 1, i - 1) ELSE name
\* list(input_dir.glob('**/*.sql')) + list(input_dir.glob('**/*.m'))
discover(entries) ==
  LET endswith(s, t) == Len(s) >= Len(t) /\ SubSeq(s, Len(s) - Len(t) + 1, Len(s)) = t
      is_sql(f) == endswith(f.name, <<".","s","q","l">>)
      is_m(f) == endswith(f.name, <<".","m">>)
  IN SelectSeq(entries, is_sql) \o SelectSeq(entries, is_m)

\* an entry of conversion_results or test_results; a key the entry does not
\* have is the empty text
Result(file, status, output, converter, notes, error) ==
  [file |-> file, status |-> status, output |-> output, converter |-> converter,
   conversion_notes |-> notes, error |-> error, message |-> << >>]
\* the f-string of _convert_file; datetime.now().isoformat() is the time of the run
output_content_sql_first(file_name, converter_type, content, converted_sql) ==
  <<"-","-"," ","C","o","n","v","e","r","t","e","d"," ","f","r","o","m",":"," ">> \o file_name \o <<"\n","-","-"," ","C","o","n","v","e","r","t","e","r",":"," ">> \o converter_type
  \o <<"\n","-","-"," ","C","o","n","v","e","r","s","i","o","n"," ","D","a","t","e",":"," ">> \o <<"2","0","2","4","-","0","5","-","0","6","T","0","7",":","0","8",":","0","9",".","0","0","0","0","1","0">> \o <<"\n","-","-"," ","D","a","t","a","b","r","i","c","k","s"," ","S","Q","L",":","\n">> \o converted_sql
  \o <<"\n","\n","-","-"," ","O","r","i","g","i","n","a","l"," ","S","Q","L",":","\n","/","*","\n">> \o content \o <<"\n","*","/","\n">>
output_content(file_name, converter_type, content, converted_sql) ==
  <<"-","-"," ","C","o","n","v","e","r","t","e","d"," ","f","r","o","m",":"," ">> \o file_name \o <<"\n","-","-"," ","C","o","n","v","e","r","t","e","r",":"," ">> \o converter_type
  \o <<"\n","-","-"," ","C","o","n","v","e","r","s","i","o","n"," ","D","a","t","e",":"," ">> \o <<"2","0","2","4","-","0","5","-","0","6","T","0","7",":","0","8",":","0","9",".","0","0","0","0","1","0">> \o <<"\n","-","-"," ","O","r","i","g","i","n","a","l"," ","S","Q","L",":","\n","/","*","\n">> \o content
  \o <<"\n","*","/","\n","\n","-","-"," ","D","a","t","a","b","r","i","c","k","s"," ","S","Q","L",":","\n">> \o converted_sql \o <<"\n">>
\* _convert_file: the converter method a file goes to by its suffix and its
\* content, "none" for an unsupported suffix
converter_method(file_ext, content) ==
  CASE file_ext = <<".","m">> -> "convert"
    [] file_ext = <<".","s","q","l">> ->
         IF Contains(upper(content), <<"C","R","E","A","T","E"," ","T","A","B","L","E">>) THEN "convert_ddl" ELSE "convert_query"
    [] OTHER -> "none"
\* Path.read_text: the text of a file, with '\r\n' and '\r' read as '\n'
read_text(data) == replace(replace(data, <<"\r", "\n">>, <<"\n">>), <<"\r">>, <<"\n">>)
\* test_conversions: the statement taken from a written file
extract_sql(content) ==
  LET startswith(s, t) == Len(s) >= Len(t) /\ SubSeq(s, 1, Len(t)) = t
      keep(l) == ~startswith(strip(l), <<"-","-">>) /\ strip(l) # << >>
  IN join(<<"\n">>, SelectSeq(split_lines(content), keep))

\* MigrationTool.__init__ with a local input and output directory
InitBatch ==
  /\ \E c \in Configs :
       /\ catalog = (IF c.catalog = << >> THEN DEFAULT_CATALOG ELSE c.catalog)
       /\ schema = (IF c.schema = << >> THEN DEFAULT_SCHEMA ELSE c.schema)
  /\ conversion_log = << >> /\ power_m_log = << >>
  /\ doc = << >> /\ op = "none" /\ input = << >> /\ converted = << >>
  /\ pc = "idle" /\ idx = 0
  /\ source_info = { } /\ table_name = << >> /\ selected_columns = << >>
  /\ date_filter = << >> /\ sort_order = << >>
  /\ fresh_log = << >> /\ returns = << >>
  /\ threads = << >> /\ lists = << >> /\ instance_log = << >>
  /\ directory \in Directories
  /\ files = << >> /\ file_idx = 0 /\ tool_pc = "constructed"
  /\ conversion_results = << >> /\ test_results = << >> /\ output_files = { }
  /\ executed = << >> /\ dry_run = FALSE

\* convert_all_files up to its loop
convert_all_files_begin ==
  /\ tool_pc = "constructed"
  /\ files' = discover(directory)
  /\ file_idx' = 1 /\ tool_pc' = "converting"
  /\ UNCHANGED <<catalog, schema, threads, lists, instance_log, conversion_log, power_m_log, power_m_locals, doc, op,
                 input, converted, pc, idx, fresh_log, returns, directory, conversion_results,
                 test_results, output_files, executed, dry_run>>
\* one turn of the loop of convert_all_files, _convert_file(file_path) up to
\* the first statement of the converter it calls: a read that raises is
\* recorded by the except clause, a file of an unsupported type is left
\* without a record
convert_file_begin ==
  /\ tool_pc = "converting" /\ file_idx <= Len(files)
  /\ \E f \in {files[file_idx]} :
     \E method \in {IF f.read_error # << >> THEN "raise" ELSE converter_method(suffix(f.name), f.content)} :
       /\ conversion_results' =
            (IF method = "raise"
             THEN Append(conversion_results,
                         Result(<<"i","n","/">> \o f.name, "error", << >>, << >>, << >>, f.read_error))
             ELSE conversion_results)
       /\ IF method \in {"raise", "none"}
          THEN /\ file_idx' = file_idx + 1
               /\ UNCHANGED <<tool_pc, doc, op, input, converted, pc, conversion_log, power_m_log, fresh_log>>
          ELSE /\ tool_pc' = "in_file"
               /\ doc' = f.content /\ op' = method /\ input' = f.content
               /\ fresh_log' = << >>
               /\ IF method = "convert"
                  THEN /\ power_m_log' = reset_log(power_m_log)
                       /\ pc' = "extract_source"
                       /\ UNCHANGED <<conversion_log, converted>>
                  ELSE /\ conversion_log' = reset_log(conversion_log)
                       /\ converted' = f.content
                       /\ pc' = "identifiers"
                       /\ UNCHANGED power_m_log
               /\ UNCHANGED file_idx
  /\ UNCHANGED <<catalog, schema, threads, lists, instance_log, power_m_locals, idx, returns, directory, files,
                 test_results, output_files, executed, dry_run>>
\* _convert_file after the converter has returned: the output file is written
\* and the record appended, or the write raises, after open() has created or
\* emptied the file, and the except clause of convert_all_files records the
\* error
convert_file_end ==
  /\ tool_pc = "in_file" /\ pc = "idle"
  /\ \E f \in {files[file_idx]}, r \in {Last(returns)} :
     \E converter_type \in {IF r.op = "convert" THEN <<"P","o","w","e","r"," ","M"," ","Q","u","e","r","y">> ELSE <<"T","-","S","Q","L"," ","/"," ","F","a","b","r","i","c">>},
        output_file \in {<<"o","u","t","/">> \o stem(f.name) \o <<"_","d","a","t","a","b","r","i","c","k","s",".","s","q","l">>} :
       IF f.write_error # << >>
       THEN /\ conversion_results' = Append(conversion_results,
                 Result(<<"i","n","/">> \o f.name, "error", << >>, << >>, << >>, f.write_error))
            /\ output_files' = {w \in output_files : w[1] # output_file} \cup {<<output_file, << >>>>}
       ELSE /\ output_files' = {w \in output_files : w[1] # output_file}
                               \cup {<<output_file, output_content(f.name, converter_type, f.content, r.text)>>}
            /\ conversion_results' = Append(conversion_results,
                 Result(f.name, "success", output_file, converter_type,
                        [k \in 1..Len(r.log) |-> r.log[k].message], << >>))
  /\ file_idx' = file_idx + 1 /\ tool_pc' = "converting"
  /\ UNCHANGED <<catalog, schema, threads, lists, instance_log, conversion_log, power_m_log, power_m_locals, doc, op,
                 input, converted, pc, idx, fresh_log, returns, directory, files, test_results,
                 executed, dry_run>>
\* the end of the loop and return self.conversion_results
convert_all_files_return ==
  /\ tool_pc = "converting" /\ file_idx > Len(files)
  /\ tool_pc' = "converted" /\ file_idx' = 0
  /\ UNCHANGED <<catalog, schema, threads, lists, instance_log, conversion_log, power_m_log, power_m_locals, doc, op,
                 input, converted, pc, idx, fresh_log, returns, directory, files, conversion_results,
                 test_results, output_files, executed, dry_run>>
\* test_conversions(dry_run) up to its loop: the client is constructed and
\* client.test_connection() sends its statement to the warehouse; when the
\* construction raises, or the statement raises or does not succeed, no file
\* is tested
test_conversions_begin ==
  /\ tool_pc = "converted"
  /\ \E d \in BOOLEAN, constructed \in BOOLEAN, answer \in {"SUCCEEDED", "FAILED", "raise"} :
     \E connected \in {constructed /\ answer = "SUCCEEDED"} :
       /\ dry_run' = d
       /\ executed' = (IF constructed
                       THEN Append(executed, <<"S","E","L","E","C","T"," ","1"," ","a","s"," ","t","e","s","t","_","v","a","l","u","e",","," ","c","u","r","r","e","n","t","_","t","i","m","e","s","t","a","m","p","(",")"," ","a","s"," ","t","e","s","t","_","t","i","m","e">>)
                       ELSE executed)
       /\ tool_pc' = (IF connected THEN "testing" ELSE "tested")
       /\ file_idx' = (IF connected THEN 1 ELSE 0)
  /\ UNCHANGED <<catalog, schema, threads, lists, instance_log, conversion_log, power_m_log, power_m_locals, doc, op,
                 input, converted, pc, idx, fresh_log, returns, directory, files, conversion_results,
                 test_results, output_files>>
\* one turn of the loop of test_conversions; reading a written file that is no
\* longer there raises, and str(e) holds the repr() of its path.  With dry_run
\* client.validate_sql sends 'EXPLAIN ' + sql and gives the message; without,
\* a statement that starts with SELECT is sent as it is
test_result ==
  /\ tool_pc = "testing" /\ file_idx <= Len(conversion_results)
  /\ LET escape(c) == CASE c = "\\" -> <<"\\", "\\">> [] c = "\n" -> <<"\\", "n">>
                        [] c = "\r" -> <<"\\", "r">> [] c = "\t" -> <<"\\", "t">>
                        [] OTHER -> <<c>>
         repr(path) ==
           LET f[k \in 0..Len(path)] == IF k = 0 THEN <<"'">> ELSE f[k - 1] \o escape(path[k])
           IN f[Len(path)] \o <<"'">>
     IN
     \E result \in {conversion_results[file_idx]} :
       IF result.status # "success"
       THEN UNCHANGED <<test_results, executed>>
       ELSE \/ \E e \in {<<"[","E","r","r","n","o"," ","2","]"," ","N","o"," ","s","u","c","h"," ","f","i","l","e"," ","o","r"," ","d","i","r","e","c","t","o","r","y",":"," ">> \o repr(result.output)} :
                 /\ test_results' = Append(test_results, Result(result.file, "error", << >>, << >>, << >>, e))
                 /\ UNCHANGED executed
            \/ \E w \in {w \in output_files : w[1] = result.output} :
               \E sql \in {extract_sql(read_text(w[2]))} :
                 IF dry_run
                 THEN /\ executed' = Append(executed, <<"E","X","P","L","A","I","N"," ">> \o sql)
                      /\ \E answer \in {"SUCCEEDED", "FAILED", "raise"} :
                           test_results' = Append(test_results,
                             [Result(result.file, IF answer = "SUCCEEDED" THEN "validated" ELSE "invalid",
                                     << >>, << >>, << >>, << >>)
                                EXCEPT !.message = IF answer = "raise" THEN <<"s","t","a","t","e","m","e","n","t"," ","f","a","i","l","e","d">>
                                                   ELSE <<"S","Q","L"," ","s","y","n","t","a","x"," ","i","s"," ","v","a","l","i","d">>])
                 ELSE IF LET s == upper(strip(sql)) IN Len(s) >= 6 /\ SubSeq(s, 1, 6) = <<"S","E","L","E","C","T">>
                 THEN /\ executed' = Append(executed, sql)
                      /\ \E status \in {"passed", "failed", "error"} :
                           test_results' = Append(test_results,
                             Result(result.file, status, << >>, << >>, << >>,
                                    IF status = "error" THEN <<"s","t","a","t","e","m","e","n","t"," ","f","a","i","l","e","d">> ELSE << >>))
                 ELSE UNCHANGED <<test_results, executed>>
  /\ file_idx' = file_idx + 1
  /\ UNCHANGED <<catalog, schema, threads, lists, instance_log, conversion_log, power_m_log, power_m_locals, doc, op,
                 input, converted, pc, idx, fresh_log, returns, directory, files, tool_pc,
                 conversion_results, output_files, dry_run>>
\* the end of the loop of test_conversions
test_conversions_return ==
  /\ tool_pc = "testing" /\ file_idx > Len(conversion_results)
  /\ tool_pc' = "tested" /\ file_idx' = 0
  /\ UNCHANGED <<catalog, schema, threads, lists, instance_log, conversion_log, power_m_log, power_m_locals, doc, op,
                 input, converted, pc, idx, fresh_log, returns, directory, files, conversion_results,
                 test_results, output_files, executed, dry_run>>
\* utils/databricks_client.py, test_databricks_connection(): a client of its
\* own is constructed and its test_connection() sends the statement to the
\* warehouse; run, at most once, before the batch
test_databricks_connection ==
  /\ tool_pc = "constructed" /\ executed = << >>
  /\ executed' = <<<<"S","E","L","E","C","T"," ","1"," ","a","s"," ","t","e","s","t","_","v","a","l","u","e",","," ","c","u","r","r","e","n","t","_","t","i","m","e","s","t","a","m","p","(",")"," ","a","s"," ","t","e","s","t","_","t","i","m","e">>>>
  /\ UNCHANGED <<catalog, schema, threads, lists, instance_log, conversion_log, power_m_log, power_m_locals, doc, op,
                 input, converted, pc, idx, fresh_log, returns, directory, files, file_idx, tool_pc,
                 conversion_results, test_results, output_files, dry_run>>
\* generate_report: the report of the run, written through _write_file to the
\* output directory; datetime.now() is the time of the run, and a note of an
\* entry stands in the text as the record of its message.  A write that raises
\* leaves the report file empty and the exception goes to the caller
generate_report ==
  /\ tool_pc \in {"converted", "tested"}
  /\ LET status_text(st) ==
           CASE st = "success" -> <<"s","u","c","c","e","s","s">> [] st = "error" -> <<"e","r","r","o","r">>
             [] st = "validated" -> <<"v","a","l","i","d","a","t","e","d">> [] st = "invalid" -> <<"i","n","v","a","l","i","d">>
             [] st = "passed" -> <<"p","a","s","s","e","d">> [] st = "failed" -> <<"f","a","i","l","e","d">>
         note_lines(ns) ==
           LET f[j \in 0..Len(ns)] ==
                 IF j = 0 THEN << >> ELSE f[j - 1] \o <<"-"," ">> \o <<ns[j]>> \o <<"\n">>
           IN f[Len(ns)]
         detail(result) ==
           <<"#","#","#"," ">> \o result.file \o <<"\n","\n","-"," ","*","*","S","t","a","t","u","s",":","*","*"," ">> \o status_text(result.status)
           \o <<"\n","-"," ","*","*","C","o","n","v","e","r","t","e","r",":","*","*"," ">>
           \o (IF result.converter = << >> THEN <<"N","/","A">> ELSE result.converter) \o <<"\n">>
           \o (IF result.conversion_notes # << >>
               THEN <<"\n","*","*","C","o","n","v","e","r","s","i","o","n"," ","N","o","t","e","s",":","*","*","\n","\n">> \o note_lines(result.conversion_notes)
               ELSE << >>)
           \o (IF result.error # << >> THEN <<"\n","*","*","E","r","r","o","r",":","*","*"," ">> \o result.error \o <<"\n">> ELSE << >>)
           \o <<"\n","-","-","-","\n","\n">>
         details[k \in 0..Len(conversion_results)] ==
           IF k = 0 THEN << >> ELSE details[k - 1] \o detail(conversion_results[k])
         test_detail(test) ==
           <<"#","#","#"," ">> \o test.file \o <<"\n","\n","-"," ","*","*","S","t","a","t","u","s",":","*","*"," ">> \o status_text(test.status) \o <<"\n">>
           \o (IF test.error # << >> THEN <<"-"," ","*","*","E","r","r","o","r",":","*","*"," ">> \o test.error \o <<"\n">> ELSE << >>)
           \o <<"\n">>
         tests[k \in 0..Len(test_results)] ==
           IF k = 0 THEN << >> ELSE tests[k - 1] \o test_detail(test_results[k])
         total == Len(conversion_results)
         successful == Len(SelectSeq(conversion_results, LAMBDA r : r.status = "success"))
     IN
     \E report_content \in {
            <<"#"," ","S","Q","L"," ","M","i","g","r","a","t","i","o","n"," ","R","e","p","o","r","t","\n","\n","*","*","D","a","t","e",":","*","*"," ","2","0","2","4","-","0","5","-","0","6"," ","0","7",":","0","8",":","0","9","\n","\n","*","*","S","o","u","r","c","e"," ","D","i","r","e","c","t","o","r","y",":","*","*"," ","i","n","\n","\n">>
            \o <<"*","*","T","a","r","g","e","t"," ","C","a","t","a","l","o","g",":","*","*"," ">> \o catalog \o <<"\n","\n","*","*","T","a","r","g","e","t"," ","S","c","h","e","m","a",":","*","*"," ">> \o schema
            \o <<"\n","\n","#","#"," ","S","u","m","m","a","r","y","\n","\n","-"," ","*","*","T","o","t","a","l"," ","F","i","l","e","s",":","*","*"," ">> \o str_int(total)
            \o <<"\n","-"," ","*","*","S","u","c","c","e","s","s","f","u","l",":","*","*"," ">> \o str_int(successful)
            \o <<"\n","-"," ","*","*","F","a","i","l","e","d",":","*","*"," ">> \o str_int(total - successful)
            \o <<"\n","\n","#","#"," ","C","o","n","v","e","r","s","i","o","n"," ","D","e","t","a","i","l","s","\n","\n">>
            \o details[total]
            \o (IF test_results # << >>
                THEN <<"#","#"," ","T","e","s","t"," ","R","e","s","u","l","t","s","\n","\n">> \o tests[Len(test_results)]
                ELSE << >>)},
        report_file \in {<<"o","u","t","/","m","i","g","r","a","t","i","o","n","_","r","e","p","o","r","t",".","m","d">>},
        written \in BOOLEAN :
       /\ output_files' = {w \in output_files : w[1] # report_file}
                           \cup {<<report_file, IF written THEN report_content ELSE << >>>>}
       /\ tool_pc' = (IF written THEN "reported" ELSE "raised")
  /\ UNCHANGED <<catalog, schema, threads, lists, instance_log, conversion_log, power_m_log, power_m_locals, doc, op,
                 input, converted, pc, idx, fresh_log, returns, directory, files, file_idx,
                 conversion_results, test_results, executed, dry_run>>

NextBatch ==
  \/ convert_all_files_begin
  \/ convert_file_begin
  \/ step_identifiers
  \/ step_date_pattern
  \/ step_date_special_cases
  \/ step_system_function
  \/ step_table_references
  \/ step_clean_format_return
  \/ step_data_types
  \/ step_constraints
  \/ step_default_values
  \/ step_using_delta_return
  \/ step_extract_source
  \/ step_extract_table_name
  \/ step_extract_selected_columns
  \/ step_extract_date_filter
  \/ step_extract_sort_order
  \/ step_build_query_return
  \/ convert_file_end
  \/ convert_all_files_return
  \/ test_conversions_begin
  \/ test_result
  \/ test_conversions_return
  \/ generate_report
  \/ test_databricks_connection

SpecBatch == InitBatch /\ [][NextBatch]_vars

\* ----------------------------------------------------------------- claims
\* What the specification says of the calls, stated over the returns.

QueryReturns == {j \in 1..Len(returns) : returns[j].op = "convert_query"}
DdlReturns == {j \in 1..Len(returns) : returns[j].op = "convert_ddl"}
TypeReturns == {j \in 1..Len(returns) : returns[j].op = "map_sql_server_type"}
\* the positions where t occurs in s, and the notes of a log with a given text
Occurrences(s, t) == {i \in 1..Len(s) : lit(s, t)[i] > 0}
NotesWith(log, warn, text) ==
  {k \in 1..Len(log) : log[k].message.warn = warn /\ log[k].message.text = text}

\* C1: whatever calls were made before on the instance, a call returns the log
\* that an instance constructed for that call alone holds (only the notes of
\* that call), and two calls of the same operation on the same input return
\* the same text and the same log.
C1_ReturnsAsFreshInstance ==
  /\ pc # "idle" => (IF op = "convert" THEN power_m_log ELSE conversion_log) = fresh_log
  /\ (pc = "idle" /\ returns # << >> /\ Last(returns).op # "map_sql_server_type")
       => Last(returns).log = fresh_log
  /\ \A i \in 1..Len(returns) : \A j \in 1..Len(returns) :
       (returns[i].op = returns[j].op /\ returns[i].input = returns[j].input)
         => (returns[i].text = returns[j].text /\ returns[i].log = returns[j].log)
\* a second call repeats the first on a DDL for which the converter logs notes
C1_Witness ==
  /\ Len(returns) = 2
  /\ returns[1].op = "convert_ddl" /\ returns[2].op = "convert_ddl"
  /\ returns[1].input = returns[2].input
  /\ Len(returns[2].log) >= 2

\* C2: in the output of convert_query every GETDATE(), GETUTCDATE() and
\* SYSDATETIME() of a query without DATEADD or CAST has become exactly
\* CURRENT_TIMESTAMP(): as many such calls as the input had, none of them
\* followed by anything a later stage added (a second pair of parentheses).
C2_TimestampCalls(s) ==
  Cardinality(Occurrences(upper(s), <<"G","E","T","D","A","T","E","(",")">>))
  + Cardinality(Occurrences(upper(s), <<"G","E","T","U","T","C","D","A","T","E","(",")">>))
  + Cardinality(Occurrences(upper(s), <<"S","Y","S","D","A","T","E","T","I","M","E","(",")">>))
C2_CurrentTimestampExact ==
  \A j \in QueryReturns :
    LET r == returns[j]
        calls == Occurrences(r.text, <<"C","U","R","R","E","N","T","_","T","I","M","E","S","T","A","M","P","(",")">>)
    IN (C2_TimestampCalls(r.input) > 0
        /\ ~Contains(upper(r.input), <<"D","A","T","E","A","D","D">>) /\ ~Contains(upper(r.input), <<"C","A","S","T">>)
        /\ ~Contains(upper(r.input), <<"C","U","R","R","E","N","T","_","T","I","M","E","S","T","A","M","P">>))
       => /\ Cardinality(calls) = C2_TimestampCalls(r.input)
          /\ \A i \in calls :
               lit(r.text, <<"(">>)[star(r.text, IsSpace)[i + Len(<<"C","U","R","R","E","N","T","_","T","I","M","E","S","T","A","M","P","(",")">>)]] = 0

\* C3: in the output of convert_query every CAST(GETDATE() AS DATE) of the
\* query, in any letter case and spacing, has become CURRENT_DATE(), and no
\* DATE(...) wraps a current-timestamp call.
C3_CastGetdateIsCurrentDate ==
  \A j \in QueryReturns :
    LET r == returns[j]
    IN re_search(r.input, M_cast_getdate)
       => /\ Cardinality(Occurrences(r.text, <<"C","U","R","R","E","N","T","_","D","A","T","E","(",")">>))
               >= Len(re_finditer(r.input, M_cast_getdate))
          /\ ~Contains(r.text, <<"D","A","T","E","(","C","U","R","R","E","N","T","_","T","I","M","E","S","T","A","M","P">>)

\* C4: when the identifier normalizer has run, the text is the input with every
\* [X] replaced by X in backticks if X holds white space or one of - / \ and by
\* bare X otherwise, everything else unchanged, and the log holds one note per
\* replaced token.
C4_IdentifierRule(m) ==
  IF \E k \in 1..Len(m.g1) : IsSpace(m.g1[k]) \/ m.g1[k] \in {"-", "/", "\\"}
  THEN <<Backquote>> \o m.g1 \o <<Backquote>> ELSE m.g1
C4_IdentifiersNormalized ==
  ((pc = "date_patterns" /\ idx = 1) \/ pc = "data_types")
    => /\ converted = re_sub(input, M_bracket, C4_IdentifierRule)
       /\ Len(conversion_log) = Len(re_finditer(input, M_bracket))

\* C5: for a type token BASE or BASE(params), in any letter case, whose BASE is
\* in the type table, map_sql_server_type returns the table's target with the
\* params as written when the target is DECIMAL, STRING without params when
\* the target is STRING, and the bare target otherwise.
C5_TypeMappingKeepsDecimalParams ==
  \A j \in TypeReturns : \A n \in TypeNames : \A q \in TypeParams :
    (returns[j].input = n \o q /\ upper(n) \in DOMAIN SQL_SERVER_TO_DATABRICKS_TYPES)
      => LET target == SQL_SERVER_TO_DATABRICKS_TYPES[upper(n)]
         IN returns[j].text = IF target = <<"D","E","C","I","M","A","L">> THEN <<"D","E","C","I","M","A","L">> \o q ELSE target
\* a lower-case decimal(10,2) has been mapped
C5_Witness ==
  \E j \in TypeReturns :
    returns[j].input = <<"d","e","c","i","m","a","l","(","1","0",",","2",")">> /\ returns[j].text = <<"D","E","C","I","M","A","L","(","1","0",",","2",")">>

\* C6: in the log convert_ddl returns, the note of a column whose base type is
\* not in the type table is a warning.
C6_UnknownTypeNoteIsWarning ==
  \A j \in DdlReturns : \A k \in 1..Len(returns[j].log) :
    LET note == returns[j].log[k].message
        sql_type == upper(note.args[2])
    IN (note.text = "Converted column {0} type: {1} -> {2}"
        /\ Slice(sql_type, 1, type_token_base_end(sql_type))
             \notin DOMAIN SQL_SERVER_TO_DATABRICKS_TYPES)
       => note.warn

\* C7: every PRIMARY KEY, FOREIGN KEY, REFERENCES, CHECK ( and NOT NULL of the
\* DDL passed to convert_ddl is in the output as written.
C7_ConstraintWords ==
  { <<"P","R","I","M","A","R","Y"," ","K","E","Y">>, <<"F","O","R","E","I","G","N"," ","K","E","Y">>, <<"R","E","F","E","R","E","N","C","E","S">>, <<"C","H","E","C","K"," ","(">>, <<"N","O","T"," ","N","U","L","L">> }
C7_ConstraintTextKept ==
  \A j \in DdlReturns : \A w \in C7_ConstraintWords :
    Cardinality(Occurrences(returns[j].text, w))
      >= Cardinality(Occurrences(returns[j].input, w))

\* C8: the log convert_ddl returns holds the PRIMARY KEY note, the FOREIGN KEY
\* warning and the CHECK warning exactly once when the input DDL has the
\* constraint and not at all when it has not.
C8_Count(present) == IF present THEN 1 ELSE 0
C8_ConstraintNotes ==
  \A j \in DdlReturns :
    LET r == returns[j]
    IN /\ Cardinality(NotesWith(r.log, FALSE,
            "PRIMARY KEY constraint preserved (supported in Databricks)"))
          = C8_Count(Contains(upper(r.input), <<"P","R","I","M","A","R","Y"," ","K","E","Y">>))
       /\ Cardinality(NotesWith(r.log, TRUE,
            "FOREIGN KEY constraints are informational only in Databricks"))
          = C8_Count(Contains(upper(r.input), <<"F","O","R","E","I","G","N"," ","K","E","Y">>))
       /\ Cardinality(NotesWith(r.log, TRUE,
            "CHECK constraints are informational only in Databricks"))
          = C8_Count(re_search(r.input, M_check))

\* C9: every DEFAULT NEWID() of the DDL passed to convert_ddl is DEFAULT UUID()
\* in the output and every DEFAULT GETDATE() is DEFAULT CURRENT_TIMESTAMP(),
\* on whatever line the column is.
C9_DefaultsTranslated ==
  \A j \in DdlReturns :
    LET r == returns[j]
    IN /\ Cardinality(Occurrences(r.text, <<"D","E","F","A","U","L","T"," ","U","U","I","D","(",")">>))
            >= Len(re_finditer(r.input, M_default_newid))
       /\ Cardinality(Occurrences(r.text, <<"D","E","F","A","U","L","T"," ","C","U","R","R","E","N","T","_","T","I","M","E","S","T","A","M","P","(",")">>))
            >= Len(re_finditer(r.input, M_default_getdate))

\* C10: for a DDL with CREATE TABLE and without USING DELTA the output of
\* convert_ddl holds ' USING DELTA' exactly once, right after the last ')', and
\* the log records it; and convert_ddl applied to that output returns it unchanged.
C10_UsingDeltaOnceAndStable ==
  \A j \in DdlReturns :
    LET r == returns[j]
    IN (Contains(upper(r.input), <<"C","R","E","A","T","E"," ","T","A","B","L","E">>) /\ ~Contains(upper(r.input), <<"U","S","I","N","G"," ","D","E","L","T","A">>))
       => /\ Cardinality(Occurrences(r.text, <<" ","U","S","I","N","G"," ","D","E","L","T","A">>)) = 1
          /\ lit(r.text, <<" ","U","S","I","N","G"," ","D","E","L","T","A">>)[rfind(r.text, <<")">>) + 1] > 0
          /\ Cardinality(NotesWith(r.log, FALSE,
               "Added USING DELTA clause for Delta Lake table format")) = 1
          /\ \A i \in DdlReturns : returns[i].input = r.text => returns[i].text = r.text

\* C11: in the output of convert_ddl on a CREATE TABLE, every column
\* 'name TYPE' or 'name TYPE(params)' whose base type is in the type table, in
\* any letter case and on any line (the CREATE TABLE line included), reads
\* 'name' followed by the mapped target type, and the CREATE TABLE head with
\* the table name is kept as written.
C11_IsLetter(c) == c \in UpperLetters \cup LowerLetters
C11_Column(s, i) ==
  LET a == plus(s, IsWord)[i]
      b == plus(s, IsSpace)[a]
      c == plus(s, C11_IsLetter)[b]
      d == lit(s, <<")">>)[plus(s, NotRParen)[lit(s, <<"(">>)[c]]]
  IN Match(IF d > 0 THEN d ELSE c, Slice(s, i, a), Slice(s, b, IF d > 0 THEN d ELSE c))
C11_TableHead(s, i) ==
  LET a == plus(s, IsSpace)[litI(s, <<"C","R","E","A","T","E">>)[i]]
      b == plus(s, IsSpace)[litI(s, <<"T","A","B","L","E">>)[a]]
      c == plus(s, IsWord)[b]
  IN Match(c, Slice(s, i, c), <<>>)
C11_ColumnTypesMapped ==
  \A j \in DdlReturns :
    LET r == returns[j]
        columns == re_finditer(r.input, C11_Column)
        heads == re_finditer(r.input, C11_TableHead)
    IN heads # <<>>
       => /\ \A k \in 1..Len(columns) :
               LET sql_type == upper(columns[k].g2)
               IN Slice(sql_type, 1, type_token_base_end(sql_type))
                    \in DOMAIN SQL_SERVER_TO_DATABRICKS_TYPES
                  => Contains(r.text, columns[k].g1 \o <<" ">> \o map_sql_server_type(sql_type))
          /\ \A k \in 1..Len(heads) : Contains(r.text, heads[k].g1)

\* C12: for every entry of the function table, the output of convert_query
\* holds no whole-token occurrence of the entry's source (in any letter case,
\* whatever character follows it), the log holds exactly one note for the
\* entry when the query had such an occurrence (the current-timestamp calls,
\* which the date stage rewrites first, aside), and a word of the query that
\* merely contains a function name is in the output as written.
C12_IsToken(tsql_func, s, i) ==
  LET e == litI(s, tsql_func)[wordb(s)[i]]
  IN e > 0 /\ (IsWord(tsql_func[Len(tsql_func)]) => wordb(s)[e] > 0)
C12_HasToken(tsql_func, s) == \E i \in 1..Len(s) : C12_IsToken(tsql_func, s, i)
C12_Words(s) ==
  {Slice(s, i, RunEnd(s, i, IsWord)) : i \in {k \in 1..Len(s) : wordb(s)[k] > 0 /\ IsWord(s[k])}}
C12_HasWord(s, w) ==
  \E i \in 1..Len(s) : wordb(s)[i] > 0 /\ wordb(s)[lit(s, w)[i]] > 0
C12_FunctionsReplaced ==
  \A j \in QueryReturns : \A k \in DOMAIN TSQL_FUNCTION_MAPPINGS :
    LET r == returns[j]
        e == TSQL_FUNCTION_MAPPINGS[k]
        notes == {n \in 1..Len(r.log) :
                    /\ r.log[n].message.text = "Converted function: {0} -> {1}"
                    /\ r.log[n].message.args = <<e.tsql_func, e.databricks_func>>}
    IN /\ ~Contains(e.databricks_func, e.tsql_func) => ~C12_HasToken(e.tsql_func, r.text)
       /\ Cardinality(notes) <= 1
       /\ (C12_HasToken(e.tsql_func, r.input) /\ e.databricks_func # <<"C","U","R","R","E","N","T","_","T","I","M","E","S","T","A","M","P","(",")">>)
            => Cardinality(notes) = 1
       /\ \A w \in C12_Words(r.input) :
            (Contains(upper(w), e.tsql_func) /\ upper(w) # e.tsql_func) => C12_HasWord(r.text, w)

\* C13: every step of convert_query and convert_ddl that changes the text,
\* the final whitespace cleanup aside, appends a note to the log (so that the
\* current-timestamp replacements, the CAST(GETDATE() AS DATE) collapse and
\* the DEFAULT rewrites are logged, and a call whose output differs from its
\* input by more than the cleanup never returns an empty log).
C13_RewritingStages ==
  {"identifiers", "date_patterns", "date_special_cases", "system_functions",
   "table_references", "data_types", "constraints", "default_values", "using_delta"}
C13_StepLogged ==
  (pc \in C13_RewritingStages /\ converted' # converted)
    => Len(conversion_log') > Len(conversion_log)
C13_EveryRewriteLogged == [][C13_StepLogged]_vars
\* the consequence for the returned log
C13_NoSilentRewrite ==
  \A j \in QueryReturns \cup DdlReturns :
    returns[j].text \notin {returns[j].input, _clean_format(returns[j].input)}
      => returns[j].log # << >>

ConvertReturns == {j \in 1..Len(returns) : returns[j].op = "convert"}
\* the clauses of a statement that follow a keyword at the start of a line, each
\* up to the end of its line or the closing semicolon
InClause(c) == c \notin {"\n", ";"}
Clauses(text, head) ==
  {Slice(text, p + Len(head), RunEnd(text, p + Len(head), InClause)) : p \in Occurrences(text, head)}

\* C14: the log convert returns holds exactly one source note, and that note
\* and the '-- Source:' header name the same source type: Salesforce when the
\* script has a Salesforce.Data( call, else SQLServer when it has a
\* Sql.Database( or Sql.Databases( call, else Unknown with the warning.
C14_SourceNotes(log) ==
  NotesWith(log, FALSE, "Detected Salesforce data source")
  \cup NotesWith(log, FALSE, "Detected SQL Server data source")
  \cup NotesWith(log, TRUE, "Could not detect data source type")
C14_Decided(m_query) ==
  IF Contains(m_query, <<"S","a","l","e","s","f","o","r","c","e",".","D","a","t","a","(">>)
  THEN [type |-> <<"S","a","l","e","s","f","o","r","c","e">>, warn |-> FALSE, text |-> "Detected Salesforce data source"]
  ELSE IF Contains(m_query, <<"S","q","l",".","D","a","t","a","b","a","s","e","(">>) \/ Contains(m_query, <<"S","q","l",".","D","a","t","a","b","a","s","e","s","(">>)
  THEN [type |-> <<"S","Q","L","S","e","r","v","e","r">>, warn |-> FALSE, text |-> "Detected SQL Server data source"]
  ELSE [type |-> <<"U","n","k","n","o","w","n">>, warn |-> TRUE, text |-> "Could not detect data source type"]
C14_OneSourceDecided ==
  \A j \in ConvertReturns :
    LET r == returns[j]
        decided == C14_Decided(r.input)
    IN /\ Cardinality(C14_SourceNotes(r.log)) = 1
       /\ Cardinality(NotesWith(r.log, decided.warn, decided.text)) = 1
       /\ Contains(r.text, <<"\n","-","-"," ","S","o","u","r","c","e",":"," ">> \o decided.type \o <<"\n">>)
       /\ Contains(r.text, <<"\n","-","-"," ","S","o","u","r","c","e",":"," ","U","n","k","n","o","w","n","\n">>)
            => NotesWith(r.log, TRUE, "Could not detect data source type") # {}

\* C15: the table name of a call of convert is the X of the first [Name="X"]
\* of the script, in lower case with every blank replaced by an underscore,
\* and unknown_table when the script has none; that one name stands in the
\* '-- Target Table:' header, after CREATE OR REPLACE TABLE, and as the last
\* component of the FROM target.
C15_Normalized(x) == [i \in 1..Len(x) |-> IF x[i] = " " THEN "_" ELSE lower_char(x[i])]
C15_FromTargets(text) == Clauses(text, <<"\n","F","R","O","M"," ">>)
C15_LastComponent(target) ==
  LET dots == {i \in 1..Len(target) : target[i] = "."}
  IN IF dots = {} THEN target
     ELSE SubSeq(target, (CHOOSE i \in dots : \A k \in dots : k <= i) + 1, Len(target))
C15_TableNameUsedThroughout ==
  \A j \in ConvertReturns :
    LET r == returns[j]
        names == re_finditer(r.input, M_name)
        expected == IF names = << >> THEN <<"u","n","k","n","o","w","n","_","t","a","b","l","e">> ELSE C15_Normalized(names[1].g1)
    IN /\ Contains(r.text, <<"\n","-","-"," ","T","a","r","g","e","t"," ","T","a","b","l","e",":"," ">> \o expected \o <<"\n">>)
       /\ Contains(r.text, <<"\n","C","R","E","A","T","E"," ","O","R"," ","R","E","P","L","A","C","E"," ","T","A","B","L","E"," ">> \o expected \o <<" ","A","S","\n">>)
       /\ Cardinality(C15_FromTargets(r.text)) = 1
       /\ \A target \in C15_FromTargets(r.text) : C15_LastComponent(target) = expected
\* a script with two references, the first with capitals and blanks, has been
\* converted under a configured catalog and schema
C15_Witness ==
  /\ catalog # << >> /\ schema # << >>
  /\ \E j \in ConvertReturns :
       /\ Len(re_finditer(returns[j].input, M_name)) = 2
       /\ Contains(returns[j].text, <<"\n","F","R","O","M"," ","m","a","i","n",".","d","w",".","b","_","c","_","_","d",";">>)

\* C16: for a script with Date.IsInPreviousNDays([C], N) the statement has the
\* one WHERE clause 'C >= CURRENT_DATE() - INTERVAL 12 MONTHS' when N is
\* written 365 and 'C >= CURRENT_DATE() - INTERVAL N DAYS' for every other N;
\* for a script with Date.IsInPreviousNMonths([C], N) and no days filter it is
\* 'C >= CURRENT_DATE() - INTERVAL N MONTHS'; a script with neither has no
\* WHERE clause.
C16_Call(func, s, i) ==
  LET a == lit(s, func \o <<"(","[">>)[i]
      b == plus(s, NotRBracket)[a]
      c == star(s, IsSpace)[lit(s, <<"]",",">>)[b]]
      d == plus(s, IsDigit)[c]
  IN Match(lit(s, <<")">>)[d], Slice(s, a, b), Slice(s, c, d))
C16_Days(s, i) == C16_Call(<<"D","a","t","e",".","I","s","I","n","P","r","e","v","i","o","u","s","N","D","a","y","s">>, s, i)
C16_Months(s, i) == C16_Call(<<"D","a","t","e",".","I","s","I","n","P","r","e","v","i","o","u","s","N","M","o","n","t","h","s">>, s, i)
C16_DateFilterClause ==
  \A j \in ConvertReturns :
    LET r == returns[j]
        days == re_finditer(r.input, C16_Days)
        months == re_finditer(r.input, C16_Months)
        where == Clauses(r.text, <<"\n","W","H","E","R","E"," ">>)
        since(C) == C \o <<" ",">","="," ","C","U","R","R","E","N","T","_","D","A","T","E","(",")"," ","-"," ","I","N","T","E","R","V","A","L"," ">>
    IN IF days # << >>
       THEN where = {IF days[1].g2 = <<"3","6","5">> THEN since(days[1].g1) \o <<"1","2"," ","M","O","N","T","H","S">>
                     ELSE since(days[1].g1) \o days[1].g2 \o <<" ","D","A","Y","S">>}
       ELSE IF months # << >>
       THEN where = {since(months[1].g1) \o months[1].g2 \o <<" ","M","O","N","T","H","S">>}
       ELSE where = { } /\ ~Contains(r.text, <<"W","H","E","R","E">>)
\* the 365-day filter on CloseDate has become a 12-month filter
C16_Witness ==
  \E j \in ConvertReturns :
    /\ Contains(returns[j].input, <<"D","a","t","e",".","I","s","I","n","P","r","e","v","i","o","u","s","N","D","a","y","s","(","[","C","l","o","s","e","D","a","t","e","]",","," ","3","6","5",")">>)
    /\ Contains(returns[j].text, <<"\n","W","H","E","R","E"," ","C","l","o","s","e","D","a","t","e"," ",">","="," ","C","U","R","R","E","N","T","_","D","A","T","E","(",")"," ","-"," ","I","N","T","E","R","V","A","L"," ","1","2"," ","M","O","N","T","H","S",";">>)

\* C17: for a script with a single-column Table.Sort on column S with
\* direction Order.T the statement ends with its one ORDER BY clause,
\* 'ORDER BY S DESC' when T is Descending and 'ORDER BY S ASC' for any other
\* T; a script without such a step has no ORDER BY clause.
C17_Sort(s, i) ==
  LET a == lit(s, <<"T","a","b","l","e",".","S","o","r","t","(">>)[i]
      b == lit(s, <<",">>)[plus(s, NotComma)[a]]
      c == lit(s, <<"{","{","\"">>)[star(s, IsSpace)[b]]
      d == plus(s, NotQuote)[c]
      e == lit(s, <<"O","r","d","e","r",".">>)[star(s, IsSpace)[lit(s, <<"\"",",">>)[d]]]
      f == plus(s, IsWord)[e]
  IN Match(lit(s, <<"}","}">>)[f], Slice(s, c, d), Slice(s, e, f))
C17_EndsWith(s, t) == Len(s) >= Len(t) /\ SubSeq(s, Len(s) - Len(t) + 1, Len(s)) = t
C17_OrderByClause ==
  \A j \in ConvertReturns :
    LET r == returns[j]
        sorts == re_finditer(r.input, C17_Sort)
        order == Clauses(r.text, <<"\n","O","R","D","E","R"," ","B","Y"," ">>)
    IN IF sorts # << >>
       THEN LET clause == sorts[1].g1
                            \o (IF sorts[1].g2 = <<"D","e","s","c","e","n","d","i","n","g">> THEN <<" ","D","E","S","C">> ELSE <<" ","A","S","C">>)
            IN /\ order = {clause}
               /\ C17_EndsWith(r.text, <<"\n","O","R","D","E","R"," ","B","Y"," ">> \o clause \o <<";">>)
       ELSE order = { } /\ ~Contains(r.text, <<"O","R","D","E","R"," ","B","Y">>)
\* a descending sort on Amount has been converted
C17_Witness ==
  \E j \in ConvertReturns :
    /\ Contains(returns[j].input, <<"O","r","d","e","r",".","D","e","s","c","e","n","d","i","n","g","}","}">>)
    /\ C17_EndsWith(returns[j].text, <<"\n","O","R","D","E","R"," ","B","Y"," ","A","m","o","u","n","t"," ","D","E","S","C",";">>)

\* C18: the statement convert returns is the header comment, then
\* CREATE OR REPLACE TABLE <table> AS SELECT <columns> FROM <target>, then
\* the WHERE clause if any, then the ORDER BY clause if any, then ';', where
\* <target> is catalog.schema.table exactly when catalog and schema are both
\* configured and the bare table otherwise, and <columns> is the list of the
\* quoted names of the column-selection step, in their order, when the script
\* has one and '*' otherwise, and is never empty.
C18_QuotedNames(s) ==
  LET quotes == {i \in 1..Len(s) : s[i] = "\""}
      nth(k) == CHOOSE i \in quotes : Cardinality({x \in quotes : x < i}) = k - 1
  IN [k \in 1..(Cardinality(quotes) \div 2) |-> Slice(s, nth(2 * k - 1) + 1, nth(2 * k))]
C18_Only(S) == CHOOSE x \in S : TRUE
C18_StatementShape ==
  \A j \in ConvertReturns :
    LET r == returns[j]
        sources == Clauses(r.text, <<"\n","-","-"," ","S","o","u","r","c","e",":"," ">>)
        tables == Clauses(r.text, <<"\n","-","-"," ","T","a","r","g","e","t"," ","T","a","b","l","e",":"," ">>)
        where == Clauses(r.text, <<"\n","W","H","E","R","E"," ">>)
        order == Clauses(r.text, <<"\n","O","R","D","E","R"," ","B","Y"," ">>)
        steps == re_finditer(r.input, M_select_columns)
        columns == IF steps = << >> THEN <<"*">>
                   ELSE join(<<",","\n"," "," ">>, C18_QuotedNames(steps[1].g1))
    IN /\ Cardinality(sources) = 1 /\ Cardinality(tables) = 1
       /\ Cardinality(where) <= 1 /\ Cardinality(order) <= 1
       /\ columns # << >>
       /\ r.text = <<"-","-"," ","C","o","n","v","e","r","t","e","d"," ","f","r","o","m"," ","P","o","w","e","r"," ","Q","u","e","r","y"," ","M","\n","-","-"," ","S","o","u","r","c","e",":"," ">> \o C18_Only(sources)
                     \o <<"\n","-","-"," ","T","a","r","g","e","t"," ","T","a","b","l","e",":"," ">> \o C18_Only(tables)
                     \o <<"\n","\n","C","R","E","A","T","E"," ","O","R"," ","R","E","P","L","A","C","E"," ","T","A","B","L","E"," ">> \o C18_Only(tables)
                     \o <<" ","A","S","\n","S","E","L","E","C","T","\n"," "," ">> \o columns \o <<"\n","F","R","O","M"," ">>
                     \o (IF catalog # << >> /\ schema # << >>
                         THEN catalog \o <<".">> \o schema \o <<".">> ELSE << >>)
                     \o C18_Only(tables)
                     \o (IF where = { } THEN << >> ELSE <<"\n","W","H","E","R","E"," ">> \o C18_Only(where))
                     \o (IF order = { } THEN << >> ELSE <<"\n","O","R","D","E","R"," ","B","Y"," ">> \o C18_Only(order))
                     \o <<";">>

\* C19: the log convert returns holds exactly six notes, the k-th being a note
\* of the k-th step: source detection, table name, columns, date filter, sort,
\* synthesis.
C19_StepNotes == <<
  {"Detected Salesforce data source", "Detected SQL Server data source",
   "Could not detect data source type"},
  {"Extracted table name: {0}", "Extracted Salesforce object name: {0}"},
  {"Found {0} selected columns", "No column selection found, using SELECT *"},
  {"Converted Date.IsInPreviousNDays({0}) to 12 months filter",
   "Converted Date.IsInPreviousNDays({0}) to days filter",
   "Converted Date.IsInPreviousNMonths({0})"},
  {"Found sort order: {0} {1}"},
  {"Generated Databricks SQL CREATE TABLE statement"} >>
C19_SixNotesInStepOrder ==
  \A j \in ConvertReturns :
    /\ Len(returns[j].log) = 6
    /\ \A k \in 1..6 : returns[j].log[k].message.text \in C19_StepNotes[k]

\* C20: at every step of a call and in every returned log the notes stand in
\* stage order: in convert_query the identifier notes, then the date-function
\* notes, then the system-function notes; in convert_ddl the identifier notes,
\* then the type notes, then the PRIMARY KEY, FOREIGN KEY and CHECK notes,
\* then the USING DELTA note; and a log holds no note of another kind.
C20_QueryStages == <<
  {"Converted bracketed identifier [{0}] to backticks", "Removed unnecessary brackets from [{0}]"},
  {"Converted date function: {0} -> {1}"},
  {"Converted function: {0} -> {1}"} >>
C20_DdlStages == <<
  {"Converted bracketed identifier [{0}] to backticks", "Removed unnecessary brackets from [{0}]"},
  {"Converted column {0} type: {1} -> {2}"},
  {"PRIMARY KEY constraint preserved (supported in Databricks)"},
  {"FOREIGN KEY constraints are informational only in Databricks"},
  {"CHECK constraints are informational only in Databricks"},
  {"Added USING DELTA clause for Delta Lake table format"} >>
C20_Stages(o) == IF o = "convert_query" THEN C20_QueryStages ELSE C20_DdlStages
C20_InStageOrder(o, log) ==
  /\ \A k \in 1..Len(log) : \E n \in DOMAIN C20_Stages(o) : log[k].message.text \in C20_Stages(o)[n]
  /\ \A a \in 1..Len(log) : \A b \in (a + 1)..Len(log) :
       \A m \in DOMAIN C20_Stages(o) : \A n \in DOMAIN C20_Stages(o) :
         (log[a].message.text \in C20_Stages(o)[m] /\ log[b].message.text \in C20_Stages(o)[n])
           => m <= n
C20_NotesFollowStageOrder ==
  /\ (pc # "idle" /\ op \in {"convert_query", "convert_ddl"}) => C20_InStageOrder(op, conversion_log)
  /\ \A j \in QueryReturns \cup DdlReturns : C20_InStageOrder(returns[j].op, returns[j].log)
\* a DDL whose constraints are written before its typed columns, and those
\* before a bracketed name, has returned notes of all six kinds
C20_Witness ==
  \E j \in DdlReturns :
    /\ Contains(returns[j].input, <<"C","H","E","C","K"," ","(","c"," ",">"," ","0",")",","," ","F","O","R","E","I","G","N"," ","K","E","Y"," ","(","c",")"," ","R","E","F","E","R","E","N","C","E","S"," ","u","(","b",")",","," ","P","R","I","M","A","R","Y"," ","K","E","Y"," ","(","c",")",",","\n"," "," ","d"," ","D","A","T","E","T","I","M","E",",","\n"," "," ","[","e","]"," ","B","I","T">>)
    /\ \A n \in DOMAIN C20_DdlStages :
         \E k \in 1..Len(returns[j].log) : returns[j].log[k].message.text \in C20_DdlStages[n]

\* C24: every script the pattern Source{[Name="X"]}[Data] matches is matched
\* by the pattern [Name="X"] too, so no log holds the note 'Extracted
\* Salesforce object name', and the table name of the statement comes from the
\* first [Name="..."] of the script, also when a Source{[Name="..."]}[Data]
\* with another name stands later in it.
C24_FirstPatternDecides ==
  \A j \in ConvertReturns :
    LET r == returns[j]
        names == re_finditer(r.input, M_name)
    IN /\ re_search(r.input, M_source_name) => names # << >>
       /\ \A k \in 1..Len(r.log) :
            r.log[k].message.text # "Extracted Salesforce object name: {0}"
       /\ names # << >>
            => /\ \E k \in 1..Len(r.log) :
                    r.log[k].message = Msg(FALSE, "Extracted table name: {0}", <<names[1].g1>>)
               /\ Clauses(r.text, <<"\n","-","-"," ","T","a","r","g","e","t"," ","T","a","b","l","e",":"," ">>) = {C15_Normalized(names[1].g1)}
\* a script with [Name="B"] and, later, Source{[Name="A"]}[Data] got the table b
C24_Witness ==
  \E j \in ConvertReturns :
    /\ LET sources == re_finditer(returns[j].input, M_source_name)
           names == re_finditer(returns[j].input, M_name)
       IN sources # << >> /\ names # << >> /\ names[1].g1 # sources[1].g2
    /\ Contains(returns[j].text, <<"\n","-","-"," ","T","a","r","g","e","t"," ","T","a","b","l","e",":"," ","b","\n">>)

\* C23: on a FabricConverter, every call of convert_query and convert_ddl
\* returns (as seen in the state it returns to, before the caller changes its
\* document) exactly the text and the log TSQLConverter returns for the same
\* input, catalog and schema; the note of the constructor is the instance log
\* until the first conversion call and is in no log after it; and
\* convert_fabric_specific_features returns its argument.
C23_HasFabricNote(log) == \E k \in 1..Len(log) : log[k].message = FabricNote
C23_FabricReturnsAsTSQL ==
  /\ op = "none" => conversion_log = _log_conversion(<< >>, FabricNote)
  /\ op # "none" => ~C23_HasFabricNote(conversion_log)
  /\ \A j \in 1..Len(returns) :
       /\ ~C23_HasFabricNote(returns[j].log)
       /\ returns[j].op = "convert_fabric_specific_features" => returns[j].text = returns[j].input
  /\ (pc = "idle" /\ returns # << >> /\ Last(returns).input = input /\ input = doc)
       => \E r \in {Last(returns)} :
            /\ r.op = "convert_query"
                 => \E t \in {convert_query(r.input, catalog, schema)} : r.text = t.text /\ r.log = t.log
            /\ r.op = "convert_ddl"
                 => \E t \in {convert_ddl(r.input, catalog, schema)} : r.text = t.text /\ r.log = t.log
\* the first call on the instance after its construction has returned a
\* rewritten DDL with its notes, and the passthrough has been called after it
C23_Witness ==
  /\ Len(returns) = 2
  /\ returns[1].op = "convert_ddl" /\ Len(returns[1].log) >= 2
  /\ returns[2].op = "convert_fabric_specific_features"
  /\ ~C23_HasFabricNote(conversion_log)

\* C21: whatever the interleaving of two calls in flight, each call returns
\* the text of a sequential run of it; when the two calls are made on different
\* instances, each call also returns the log of a sequential run of it.  (When
\* they are made on the same instance, a call can return a log that holds notes
\* of the other call and lacks notes of its own: C21_Witness.)
C21_OwnInstances == \A t \in Threads, u \in Threads : t # u => threads[t].self # threads[u].self
C21_Sequential(t) ==
  IF threads[t].op = "convert_query"
  THEN convert_query(threads[t].input, catalog, schema)
  ELSE convert_ddl(threads[t].input, catalog, schema)
C21_NoteIn(note, log) == \E k \in 1..Len(log) : log[k] = note
C21_OwnInstanceReturnsSequential ==
  \A t \in Threads :
    threads[t].pc = "done"
      => \E seq \in {C21_Sequential(t)} :
           /\ threads[t].text = seq.text
           /\ C21_OwnInstances => lists[threads[t].log] = seq.log
\* two calls on one instance have interleaved, and one of them has returned a
\* log that lacks a note of its sequential run and holds a note that is not of
\* its sequential run
C21_Witness ==
  /\ ~C21_OwnInstances
  /\ \E t \in Threads :
       /\ threads[t].pc = "done"
       /\ \E seq \in {C21_Sequential(t)}, got \in {lists[threads[t].log]} :
            /\ \E k \in 1..Len(seq.log) : ~C21_NoteIn(seq.log[k], got)
            /\ \E k \in 1..Len(got) : ~C21_NoteIn(got[k], seq.log)

\* C22: convert_all_files appends exactly one entry to conversion_results for
\* each discovered file, in discovery order: after k turns of its loop there
\* are k entries, the k-th being for the k-th discovered file, with status
\* 'error' and the message when reading or writing raised and with status
\* 'success' and the notes of the conversion otherwise.
C22_Turns ==
  CASE tool_pc \in {"converting", "in_file"} -> file_idx - 1
    [] tool_pc \in {"converted", "testing", "tested", "reported", "raised"} -> Len(files)
    [] OTHER -> 0
C22_EntryOf(f, e) ==
  IF f.read_error # << >> THEN e.status = "error" /\ e.error = f.read_error
  ELSE IF f.write_error # << >> THEN e.status = "error" /\ e.error = f.write_error
  ELSE /\ e.status = "success" /\ e.file = f.name
       /\ \E j \in 1..Len(returns) :
            /\ returns[j].input = f.content
            /\ e.conversion_notes = [k \in 1..Len(returns[j].log) |-> returns[j].log[k].message]
C22_OneEntryPerDiscoveredFile ==
  /\ Len(conversion_results) = C22_Turns
  /\ \A k \in 1..C22_Turns : C22_EntryOf(files[k], conversion_results[k])
\* C22, the last part: the entries recorded stay as they are while the
\* remaining files are processed and tested
C22_EntriesKept ==
  [][/\ Len(conversion_results') >= Len(conversion_results)
     /\ SubSeq(conversion_results', 1, Len(conversion_results)) = conversion_results]_vars

\* C25: with dry_run false, test_conversions executes, besides the statement
\* of its connection test, only statements that
\* start with SELECT once the blank lines and the '--' lines of the written
\* file are removed, and records passed or failed only for those; a file
\* written by _convert_file for a source file whose name holds no line feed
\* and no carriage return is never executed: test_results gets no passed or
\* failed entry for it, only an 'error' entry when reading it back raises.
C25_HasLineBreak(name) == \E i \in 1..Len(name) : name[i] \in {"\n", "\r"}
C25_IsSelect(sql) == Len(sql) >= 6 /\ upper(SubSeq(sql, 1, 6)) = <<"S","E","L","E","C","T">>
C25_ConnectionTest == <<"S","E","L","E","C","T"," ","1"," ","a","s"," ","t","e","s","t","_","v","a","l","u","e",","," ","c","u","r","r","e","n","t","_","t","i","m","e","s","t","a","m","p","(",")"," ","a","s"," ","t","e","s","t","_","t","i","m","e">>
C25_FileStatements == SelectSeq(executed, LAMBDA x : x # C25_ConnectionTest)
C25_Testing == tool_pc \in {"testing", "tested", "reported", "raised"} /\ ~dry_run
C25_PlainNamesNeverExecuted ==
  C25_Testing
    => /\ \A k \in 1..Len(C25_FileStatements) :
            /\ C25_IsSelect(C25_FileStatements[k])
            /\ \E i \in 1..Len(files) :
                 /\ C25_HasLineBreak(files[i].name)
                 /\ Contains(C25_FileStatements[k], files[i].content)
       /\ \A k \in 1..Len(test_results) :
            \/ C25_HasLineBreak(test_results[k].file)
            \/ /\ test_results[k].status = "error"
               /\ SubSeq(test_results[k].error, 1, 9) = <<"[","E","r","r","n","o"," ","2","]">>
\* the loop of test_conversions has gone, with dry_run false, over the written
\* files of a query with an ordinary name and of a query whose name holds a
\* line break: only the second was executed
C25_Witness ==
  /\ tool_pc = "tested" /\ ~dry_run
  /\ Len(conversion_results) = 2
  /\ \A k \in 1..2 : conversion_results[k].status = "success"
  /\ \E k \in 1..2 : conversion_results[k].file = <<"q",".","s","q","l">>
  /\ Len(executed) > 1 /\ Len(C25_FileStatements) = 1 /\ Len(test_results) = 1
  /\ test_results[1].status = "passed" /\ C25_HasLineBreak(test_results[1].file)
\* C25 as stated: with dry_run false no file written by _convert_file is
\* executed and no passed or failed entry is recorded
C25_NoWrittenFileExecuted ==
  C25_Testing
    => /\ C25_FileStatements = << >>
       /\ \A k \in 1..Len(test_results) : test_results[k].status \notin {"passed", "failed"}

====
